---- MODULE Spec2Model ----
(***************************************************************************)
(* Model of the target-independent code generation pass pipeline builder   *)
(* (TargetPassConfig, Passes.cpp).  A pass identity (AnalysisID) is a       *)
(* string, the null identity is Null.  The model is of a build with         *)
(* assertions enabled: a failed assert, llvm_unreachable or                 *)
(* report_fatal_error ends construction and is recorded in `fatal`.         *)
(***************************************************************************)
EXTENDS Naturals, Sequences, FiniteSets, TLC

VARIABLES
    opts,             \* the cl::opt command-line flags of the process
    OptLevel,         \* TM->getOptLevel()
    PrintMachineCode, \* TM->Options.PrintMachineCode
    TargetPasses,     \* Impl->TargetPasses: the Substitution Table
    InsertedPasses,   \* Impl->InsertedPasses: the Insertion List
    StartAfter, StopAfter, Started, Stopped,
    Initialized,
    DisableVerify,    \* per-pipeline options, changed through setOpt
    EnableTailMerge,
    PM,               \* the passes handed to PM->add, in order
    cand,             \* the identities of the passes handed to addPass(Pass *)
    RegAlloc,         \* the -regalloc option
    RegAllocDefault,  \* RegisterRegAlloc's process-wide default constructor
    allocs,           \* the results of the createRegAllocPass calls, in order
    frames,           \* the createRegAllocPass calls in flight, per pipeline
    fatal,            \* the message of the fatal error that ended construction
    last,             \* the last call made on the object and what it returned
    nconf, nsched     \* number of configuration / scheduling calls made

vars == <<opts, OptLevel, PrintMachineCode, TargetPasses, InsertedPasses,
          StartAfter, StopAfter, Started, Stopped, Initialized, DisableVerify,
          EnableTailMerge, PM, cand, RegAlloc, RegAllocDefault, allocs, frames,
          fatal, last, nconf, nsched>>

----------------------------------------------------------------------------
(* Bounds of the model. *)

\* configuration calls (substitutePass, insertPass, setStartStopPasses) in Spec
MaxConfig == 2
\* scheduling calls (addPass) in Spec
MaxSched == 2
\* candidate passes handed to the gate in SpecGate
MaxCand == 4
\* command-line flags given a non-default value in SpecMachine
MaxFlagsSet == 2
\* createRegAllocPass / setDefault calls in SpecRegAlloc
MaxAllocCalls == 3
\* command-line flags given a non-default value in SpecResolve
MaxResolveFlags == 1

----------------------------------------------------------------------------
(* Pass identities. *)

Null == "0"

\* The pseudo pass IDs: identities of TargetPassConfig that name no pass.
PseudoIDs == {"EarlyTailDuplicateID", "PostRAMachineLICMID"}

\* The identities the standard pipeline schedules through addPass(AnalysisID).
StandardIDs ==
    {"ExpandISelPseudosID", "LocalStackSlotAllocationID", "EarlyTailDuplicateID",
     "OptimizePHIsID", "StackColoringID", "DeadMachineInstructionElimID",
     "EarlyIfConverterID", "MachineLICMID", "MachineCSEID", "MachineSinkingID",
     "PeepholeOptimizerID", "PHIEliminationID", "TwoAddressInstructionPassID",
     "ProcessImplicitDefsID", "LiveVariablesID", "MachineLoopInfoID",
     "LiveIntervalsID", "StrongPHIEliminationID", "RegisterCoalescerID",
     "MachineSchedulerID", "VirtRegRewriterID", "StackSlotColoringID",
     "PostRAMachineLICMID", "PrologEpilogCodeInserterID", "BranchFolderPassID",
     "TailDuplicateID", "MachineCopyPropagationID", "ExpandPostRAPseudosID",
     "PostRASchedulerID", "GCMachineCodeAnalysisID", "MachineBlockPlacementID",
     "CodePlacementOptID", "MachineBlockPlacementStatsID"}

\* The passes the pipeline creates itself and hands to addPass(Pass *).
CreatedPasses ==
    {"MachineFunctionPrinterPass", "MachineVerifierPass", "GCInfoPrinter",
     "RAGreedy", "RAFast"}

AllIDs == StandardIDs \cup CreatedPasses

\* Pass::createPass(ID) != 0: every identity but the pseudo ones names a pass.
createPass(ID) == IF ID \in AllIDs \ PseudoIDs THEN ID ELSE Null

----------------------------------------------------------------------------
(* Command-line flags. *)

BoolFlags ==
    {"DisablePostRA", "DisableBranchFold", "DisableTailDuplicate",
     "DisableEarlyTailDup", "DisableBlockPlacement", "EnableBlockPlacementStats",
     "DisableCodePlace", "DisableSSC", "DisableMachineDCE",
     "EnableEarlyIfConversion", "DisableMachineLICM", "DisableMachineCSE",
     "EnableStrongPHIElim", "DisablePostRAMachineLICM", "DisableMachineSink",
     "DisableCopyProp", "PrintGCInfo", "VerifyMachineCode", "EarlyLiveIntervals"}

BoolOrDefault == {"BOU_UNSET", "BOU_TRUE", "BOU_FALSE"}

\* A command line is a set of arguments: the name of a boolean flag, or a
\* flag with its value.  No flag is given two values.
TriStateArgs ==
    {"OptimizeRegAlloc=true", "OptimizeRegAlloc=false",
     "EnableMachineSched=true", "EnableMachineSched=false"}

PrintMachineInstrsArgs ==
    {"PrintMachineInstrs=", "PrintMachineInstrs=machine-cse",
     "PrintMachineInstrs=no-such-pass"}

WellFormedArgs(args) ==
    /\ ~ {"OptimizeRegAlloc=true", "OptimizeRegAlloc=false"} \subseteq args
    /\ ~ {"EnableMachineSched=true", "EnableMachineSched=false"} \subseteq args
    /\ Cardinality(args \cap PrintMachineInstrsArgs) <= 1

\* The values the flags take for the command line args (cl::opt parsing):
\* a flag not given keeps its default.
ParseCommandLine(args) ==
    [f \in BoolFlags |-> f \in args] @@
    [OptimizeRegAlloc |->
        IF "OptimizeRegAlloc=true" \in args THEN "BOU_TRUE"
        ELSE IF "OptimizeRegAlloc=false" \in args THEN "BOU_FALSE" ELSE "BOU_UNSET",
     EnableMachineSched |->
        IF "EnableMachineSched=true" \in args THEN "BOU_TRUE"
        ELSE IF "EnableMachineSched=false" \in args THEN "BOU_FALSE" ELSE "BOU_UNSET",
     PrintMachineInstrs |->
        IF "PrintMachineInstrs=" \in args THEN ""
        ELSE IF "PrintMachineInstrs=machine-cse" \in args THEN "machine-cse"
        ELSE IF "PrintMachineInstrs=no-such-pass" \in args THEN "no-such-pass"
        ELSE "option-unspecified"]

\* Every flag as the command line leaves it when nothing is given.
DefaultOpts == ParseCommandLine({})

RECURSIVE SetsUpTo(_, _)
\* The subsets of S of at most k elements.
SetsUpTo(S, k) ==
    IF k = 0 THEN {{}}
    ELSE LET R == SetsUpTo(S, k - 1)
         IN R \cup {T \cup {x} : T \in R, x \in S}

\* The flag values of the command lines that give at most k of the arguments Args.
OptsOf(Args, k) ==
    {ParseCommandLine(args) : args \in {a \in SetsUpTo(Args, k) : WellFormedArgs(a)}}

DisablePostRA == opts.DisablePostRA
DisableBranchFold == opts.DisableBranchFold
DisableTailDuplicate == opts.DisableTailDuplicate
DisableEarlyTailDup == opts.DisableEarlyTailDup
DisableBlockPlacement == opts.DisableBlockPlacement
EnableBlockPlacementStats == opts.EnableBlockPlacementStats
DisableCodePlace == opts.DisableCodePlace
DisableSSC == opts.DisableSSC
DisableMachineDCE == opts.DisableMachineDCE
EnableEarlyIfConversion == opts.EnableEarlyIfConversion
DisableMachineLICM == opts.DisableMachineLICM
DisableMachineCSE == opts.DisableMachineCSE
OptimizeRegAlloc == opts.OptimizeRegAlloc
EnableMachineSched == opts.EnableMachineSched
EnableStrongPHIElim == opts.EnableStrongPHIElim
DisablePostRAMachineLICM == opts.DisablePostRAMachineLICM
DisableMachineSink == opts.DisableMachineSink
DisableCopyProp == opts.DisableCopyProp
PrintGCInfo == opts.PrintGCInfo
VerifyMachineCode == opts.VerifyMachineCode
PrintMachineInstrs == opts.PrintMachineInstrs
EarlyLiveIntervals == opts.EarlyLiveIntervals

----------------------------------------------------------------------------
(* Override Rules. *)

\* The result of a resolution that ended in report_fatal_error.
TargetCannotEnable == "Target cannot enable pass"

\* applyDisable suppressing the pass when the flag is false.
applyDisable_Inverted(PassID, Override) ==
    IF Override THEN PassID ELSE Null

applyDisable(PassID, Override) ==
    IF Override THEN Null ELSE PassID

\* applyOverride with the forced enable falling back on nothing.
applyOverride_NoFallback(TargetID, Override, StandardID) ==
    CASE Override = "BOU_UNSET" -> TargetID
      [] Override = "BOU_TRUE" ->
            IF TargetID # Null THEN TargetID
            ELSE IF StandardID = Null THEN TargetCannotEnable
            ELSE Null
      [] Override = "BOU_FALSE" -> Null

\* applyOverride passing the target's choice through when the flag is false.
applyOverride_FalseKeepsTarget(TargetID, Override, StandardID) ==
    CASE Override = "BOU_UNSET" -> TargetID
      [] Override = "BOU_TRUE" ->
            IF TargetID # Null THEN TargetID
            ELSE IF StandardID = Null THEN TargetCannotEnable
            ELSE StandardID
      [] Override = "BOU_FALSE" -> TargetID

applyOverride(TargetID, Override, StandardID) ==
    CASE Override = "BOU_UNSET" -> TargetID
      [] Override = "BOU_TRUE" ->
            IF TargetID # Null THEN TargetID
            ELSE IF StandardID = Null THEN TargetCannotEnable
            ELSE StandardID
      [] Override = "BOU_FALSE" -> Null

\* overridePass giving the tri-state rule no standard identity to fall back on.
overridePass_NullFallback(StandardID, TargetID) ==
    IF StandardID = "PostRASchedulerID" THEN applyDisable(TargetID, DisablePostRA)
    ELSE IF StandardID = "BranchFolderPassID" THEN applyDisable(TargetID, DisableBranchFold)
    ELSE IF StandardID = "TailDuplicateID" THEN applyDisable(TargetID, DisableTailDuplicate)
    ELSE IF StandardID = "EarlyTailDuplicateID" THEN applyDisable(TargetID, DisableEarlyTailDup)
    ELSE IF StandardID = "MachineBlockPlacementID" THEN applyDisable(TargetID, DisableCodePlace)
    ELSE IF StandardID = "CodePlacementOptID" THEN applyDisable(TargetID, DisableCodePlace)
    ELSE IF StandardID = "StackSlotColoringID" THEN applyDisable(TargetID, DisableSSC)
    ELSE IF StandardID = "DeadMachineInstructionElimID" THEN applyDisable(TargetID, DisableMachineDCE)
    ELSE IF StandardID = "EarlyIfConverterID" THEN applyDisable(TargetID, ~EnableEarlyIfConversion)
    ELSE IF StandardID = "MachineLICMID" THEN applyDisable(TargetID, DisableMachineLICM)
    ELSE IF StandardID = "MachineCSEID" THEN applyDisable(TargetID, DisableMachineCSE)
    ELSE IF StandardID = "MachineSchedulerID" THEN applyOverride(TargetID, EnableMachineSched, Null)
    ELSE IF StandardID = "PostRAMachineLICMID" THEN applyDisable(TargetID, DisablePostRAMachineLICM)
    ELSE IF StandardID = "MachineSinkingID" THEN applyDisable(TargetID, DisableMachineSink)
    ELSE IF StandardID = "MachineCopyPropagationID" THEN applyDisable(TargetID, DisableCopyProp)
    ELSE TargetID

overridePass(StandardID, TargetID) ==
    IF StandardID = "PostRASchedulerID" THEN applyDisable(TargetID, DisablePostRA)
    ELSE IF StandardID = "BranchFolderPassID" THEN applyDisable(TargetID, DisableBranchFold)
    ELSE IF StandardID = "TailDuplicateID" THEN applyDisable(TargetID, DisableTailDuplicate)
    ELSE IF StandardID = "EarlyTailDuplicateID" THEN applyDisable(TargetID, DisableEarlyTailDup)
    ELSE IF StandardID = "MachineBlockPlacementID" THEN applyDisable(TargetID, DisableCodePlace)
    ELSE IF StandardID = "CodePlacementOptID" THEN applyDisable(TargetID, DisableCodePlace)
    ELSE IF StandardID = "StackSlotColoringID" THEN applyDisable(TargetID, DisableSSC)
    ELSE IF StandardID = "DeadMachineInstructionElimID" THEN applyDisable(TargetID, DisableMachineDCE)
    ELSE IF StandardID = "EarlyIfConverterID" THEN applyDisable(TargetID, ~EnableEarlyIfConversion)
    ELSE IF StandardID = "MachineLICMID" THEN applyDisable(TargetID, DisableMachineLICM)
    ELSE IF StandardID = "MachineCSEID" THEN applyDisable(TargetID, DisableMachineCSE)
    ELSE IF StandardID = "MachineSchedulerID" THEN applyOverride(TargetID, EnableMachineSched, StandardID)
    ELSE IF StandardID = "PostRAMachineLICMID" THEN applyDisable(TargetID, DisablePostRAMachineLICM)
    ELSE IF StandardID = "MachineSinkingID" THEN applyDisable(TargetID, DisableMachineSink)
    ELSE IF StandardID = "MachineCopyPropagationID" THEN applyDisable(TargetID, DisableCopyProp)
    ELSE TargetID

----------------------------------------------------------------------------
(* The Substitution Table. *)

\* Impl->TargetPasses[StandardID] = TargetID, on the table Table
substitutePass(Table, StandardID, TargetID) ==
    [ID \in DOMAIN Table \cup {StandardID} |->
        IF ID = StandardID THEN TargetID ELSE Table[ID]]

\* disablePass(ID) is substitutePass(ID, 0)
disablePass(Table, ID) == substitutePass(Table, ID, Null)

\* The table the constructor leaves: the pseudo IDs stand for real passes,
\* early if-conversion and the machine scheduler are disabled.
CtorTargetPasses ==
    LET Empty == [ID \in {} |-> Null]
        t1 == substitutePass(Empty, "EarlyTailDuplicateID", "TailDuplicateID")
        t2 == substitutePass(t1, "PostRAMachineLICMID", "MachineLICMID")
        t3 == disablePass(t2, "EarlyIfConverterID")
    IN substitutePass(t3, "MachineSchedulerID", Null)

\* The lookup following the table from the identity it found once more.
getPassSubstitution_Transitive(ID) ==
    LET T == IF ID \notin DOMAIN TargetPasses THEN ID ELSE TargetPasses[ID]
    IN IF T \notin DOMAIN TargetPasses THEN T ELSE TargetPasses[T]

getPassSubstitution(ID) ==
    IF ID \notin DOMAIN TargetPasses THEN ID ELSE TargetPasses[ID]

----------------------------------------------------------------------------
(* The part of the state a call changes, as a record the operators below     *)
(* thread through the calls a handler makes.                                 *)

NoError == ""

Cur ==
    [PM |-> PM, cand |-> cand, Started |-> Started, Stopped |-> Stopped,
     InsertedPasses |-> InsertedPasses, PrintMachineCode |-> PrintMachineCode,
     RegAllocDefault |-> RegAllocDefault, allocs |-> allocs,
     fatal |-> fatal, ret |-> Null]

Commit(s) ==
    /\ PM' = s.PM
    /\ cand' = s.cand
    /\ Started' = s.Started
    /\ Stopped' = s.Stopped
    /\ InsertedPasses' = s.InsertedPasses
    /\ PrintMachineCode' = s.PrintMachineCode
    /\ RegAllocDefault' = s.RegAllocDefault
    /\ allocs' = s.allocs
    /\ fatal' = s.fatal

Fail(s, msg) == [s EXCEPT !.fatal = msg]

\* return v, unless a fatal error has ended the call
Return(s, v) == IF s.fatal # NoError THEN s ELSE [s EXCEPT !.ret = v]

----------------------------------------------------------------------------
(* The Pipeline Gate: addPass(Pass *P), P a pass of identity PassID. *)

\* The gate with the stop boundary taking effect before the append decision.
addPass_StopBeforeAppend(s, PassID) ==
    IF s.fatal # NoError THEN s
    ELSE IF Initialized THEN Fail(s, "PassConfig is immutable")
    ELSE
      LET stopped == IF StopAfter = PassID THEN TRUE ELSE s.Stopped
          started == IF StartAfter = PassID THEN TRUE ELSE s.Started
          added == IF s.Started /\ ~stopped THEN Append(s.PM, PassID) ELSE s.PM
          t == [s EXCEPT !.PM = added, !.cand = Append(s.cand, PassID),
                         !.Stopped = stopped, !.Started = started]
      IN IF stopped /\ ~started
         THEN Fail(t, "Cannot stop compilation after pass that is not run")
         ELSE t

\* The gate without the check of the window after the boundaries are compared.
addPass_NoWindowCheck(s, PassID) ==
    IF s.fatal # NoError THEN s
    ELSE IF Initialized THEN Fail(s, "PassConfig is immutable")
    ELSE
      LET added == IF s.Started /\ ~s.Stopped THEN Append(s.PM, PassID) ELSE s.PM
          stopped == IF StopAfter = PassID THEN TRUE ELSE s.Stopped
          started == IF StartAfter = PassID THEN TRUE ELSE s.Started
      IN [s EXCEPT !.PM = added, !.cand = Append(s.cand, PassID),
                   !.Stopped = stopped, !.Started = started]

\* The gate appending whenever Started holds, stopped or not.
addPass_AppendAfterStop(s, PassID) ==
    IF s.fatal # NoError THEN s
    ELSE IF Initialized THEN Fail(s, "PassConfig is immutable")
    ELSE
      LET added == IF s.Started THEN Append(s.PM, PassID) ELSE s.PM
          stopped == IF StopAfter = PassID THEN TRUE ELSE s.Stopped
          started == IF StartAfter = PassID THEN TRUE ELSE s.Started
          t == [s EXCEPT !.PM = added, !.cand = Append(s.cand, PassID),
                         !.Stopped = stopped, !.Started = started]
      IN IF stopped /\ ~started
         THEN Fail(t, "Cannot stop compilation after pass that is not run")
         ELSE t

\* The gate with the start boundary taking effect before the append decision.
addPass_StartBeforeAppend(s, PassID) ==
    IF s.fatal # NoError THEN s
    ELSE IF Initialized THEN Fail(s, "PassConfig is immutable")
    ELSE
      LET started == IF StartAfter = PassID THEN TRUE ELSE s.Started
          added == IF started /\ ~s.Stopped THEN Append(s.PM, PassID) ELSE s.PM
          stopped == IF StopAfter = PassID THEN TRUE ELSE s.Stopped
          t == [s EXCEPT !.PM = added, !.cand = Append(s.cand, PassID),
                         !.Stopped = stopped, !.Started = started]
      IN IF stopped /\ ~started
         THEN Fail(t, "Cannot stop compilation after pass that is not run")
         ELSE t

addPass(s, PassID) ==
    IF s.fatal # NoError THEN s
    ELSE IF Initialized THEN Fail(s, "PassConfig is immutable")
    ELSE
      LET added == IF s.Started /\ ~s.Stopped THEN Append(s.PM, PassID) ELSE s.PM
          stopped == IF StopAfter = PassID THEN TRUE ELSE s.Stopped
          started == IF StartAfter = PassID THEN TRUE ELSE s.Started
          t == [s EXCEPT !.PM = added, !.cand = Append(s.cand, PassID),
                         !.Stopped = stopped, !.Started = started]
      IN IF stopped /\ ~started
         THEN Fail(t, "Cannot stop compilation after pass that is not run")
         ELSE t

----------------------------------------------------------------------------
(* addPass(AnalysisID PassID): resolve, create, gate, then the insertions. *)

RECURSIVE addInsertedPasses_Resolved(_, _, _)
\* The loop resolving each inserted identity like a scheduled one.
addInsertedPasses_Resolved(s, PassID, I) ==
    IF s.fatal # NoError \/ I > Len(s.InsertedPasses) THEN s
    ELSE IF s.InsertedPasses[I][1] # PassID THEN addInsertedPasses_Resolved(s, PassID, I + 1)
    ELSE IF s.InsertedPasses[I][2] = Null THEN Fail(s, "Illegal Pass ID!")
    ELSE LET FinalID == overridePass(s.InsertedPasses[I][2],
                                     getPassSubstitution(s.InsertedPasses[I][2]))
         IN IF FinalID = Null THEN addInsertedPasses_Resolved(s, PassID, I + 1)
            ELSE IF createPass(FinalID) = Null THEN Fail(s, "Pass ID not registered")
            ELSE addInsertedPasses_Resolved(addPass(s, createPass(FinalID)), PassID, I + 1)

RECURSIVE addInsertedPasses_Nested(_, _, _)
\* The extras recorded for an inserted pass, handed to the gate after it.
addInsertedPasses_Nested(s, PassID, I) ==
    IF s.fatal # NoError \/ I > Len(s.InsertedPasses) THEN s
    ELSE IF s.InsertedPasses[I][1] # PassID THEN addInsertedPasses_Nested(s, PassID, I + 1)
    ELSE IF s.InsertedPasses[I][2] = Null THEN Fail(s, "Illegal Pass ID!")
    ELSE IF createPass(s.InsertedPasses[I][2]) = Null THEN Fail(s, "Pass ID not registered")
    ELSE addInsertedPasses_Nested(addPass(s, createPass(s.InsertedPasses[I][2])), PassID, I + 1)

RECURSIVE addInsertedPasses_TwoLevels(_, _, _)
\* The loop treating each inserted pass as an anchor in its turn.
addInsertedPasses_TwoLevels(s, PassID, I) ==
    IF s.fatal # NoError \/ I > Len(s.InsertedPasses) THEN s
    ELSE IF s.InsertedPasses[I][1] # PassID THEN addInsertedPasses_TwoLevels(s, PassID, I + 1)
    ELSE IF s.InsertedPasses[I][2] = Null THEN Fail(s, "Illegal Pass ID!")
    ELSE IF createPass(s.InsertedPasses[I][2]) = Null THEN Fail(s, "Pass ID not registered")
    ELSE addInsertedPasses_TwoLevels(
             addInsertedPasses_Nested(addPass(s, createPass(s.InsertedPasses[I][2])),
                                      s.InsertedPasses[I][2], 1),
             PassID, I + 1)

RECURSIVE addInsertedPasses(_, _, _)
\* The loop over Impl->InsertedPasses, from its I-th entry on.
addInsertedPasses(s, PassID, I) ==
    IF s.fatal # NoError \/ I > Len(s.InsertedPasses) THEN s
    ELSE IF s.InsertedPasses[I][1] # PassID THEN addInsertedPasses(s, PassID, I + 1)
    ELSE IF s.InsertedPasses[I][2] = Null THEN Fail(s, "Illegal Pass ID!")
    ELSE IF createPass(s.InsertedPasses[I][2]) = Null THEN Fail(s, "Pass ID not registered")
    ELSE addInsertedPasses(addPass(s, createPass(s.InsertedPasses[I][2])), PassID, I + 1)

\* addPass(AnalysisID) matching the insertion anchors on the resolved identity.
addPassID_AnchorOnFinalID(s, PassID) ==
    IF s.fatal # NoError THEN s
    ELSE
      LET TargetID == getPassSubstitution(PassID)
          FinalID == overridePass(PassID, TargetID)
      IN IF FinalID = TargetCannotEnable THEN Fail(s, TargetCannotEnable)
         ELSE IF FinalID = Null THEN Return(s, FinalID)
         ELSE IF createPass(FinalID) = Null THEN Fail(s, "Pass ID not registered")
         ELSE Return(addInsertedPasses(addPass(s, createPass(FinalID)), FinalID, 1), FinalID)

\* addPass(AnalysisID) running the insertion loop before the null check.
addPassID_InsertBeforeNullCheck(s, PassID) ==
    IF s.fatal # NoError THEN s
    ELSE
      LET TargetID == getPassSubstitution(PassID)
          FinalID == overridePass(PassID, TargetID)
      IN IF FinalID = TargetCannotEnable THEN Fail(s, TargetCannotEnable)
         ELSE IF FinalID = Null
              THEN Return(addInsertedPasses(s, PassID, 1), FinalID)
         ELSE IF createPass(FinalID) = Null THEN Fail(s, "Pass ID not registered")
         ELSE Return(addInsertedPasses(addPass(s, createPass(FinalID)), PassID, 1), FinalID)

\* addPass(AnalysisID) handing whatever createPass returned to the gate.
addPassID_NoRegistrationCheck(s, PassID) ==
    IF s.fatal # NoError THEN s
    ELSE
      LET TargetID == getPassSubstitution(PassID)
          FinalID == overridePass(PassID, TargetID)
      IN IF FinalID = TargetCannotEnable THEN Fail(s, TargetCannotEnable)
         ELSE IF FinalID = Null THEN Return(s, FinalID)
         ELSE Return(addInsertedPasses(addPass(s, FinalID), PassID, 1), FinalID)

\* addPass(AnalysisID) applying the Override Rule of the identity the
\* Substitution Table gave, not of the identity it was asked for.
addPassID_RuleOfTarget(s, PassID) ==
    IF s.fatal # NoError THEN s
    ELSE
      LET TargetID == getPassSubstitution(PassID)
          FinalID == overridePass(TargetID, TargetID)
      IN IF FinalID = TargetCannotEnable THEN Fail(s, TargetCannotEnable)
         ELSE IF FinalID = Null THEN Return(s, FinalID)
         ELSE IF createPass(FinalID) = Null THEN Fail(s, "Pass ID not registered")
         ELSE Return(addInsertedPasses(addPass(s, createPass(FinalID)), PassID, 1), FinalID)

addPassID(s, PassID) ==
    IF s.fatal # NoError THEN s
    ELSE
      LET TargetID == getPassSubstitution(PassID)
          FinalID == overridePass(PassID, TargetID)
      IN IF FinalID = TargetCannotEnable THEN Fail(s, TargetCannotEnable)
         ELSE IF FinalID = Null THEN Return(s, FinalID)
         ELSE IF createPass(FinalID) = Null THEN Fail(s, "Pass ID not registered")
         ELSE Return(addInsertedPasses(addPass(s, createPass(FinalID)), PassID, 1), FinalID)

----------------------------------------------------------------------------
(* insertPass(TargetPassID, InsertedPassID) *)

\* insertPass without the check that the extra is not its anchor.
insertPass_NoSelfCheck(s, TargetPassID, InsertedPassID) ==
    IF s.fatal # NoError THEN s
    ELSE [s EXCEPT !.InsertedPasses = Append(@, <<TargetPassID, InsertedPassID>>)]

\* insertPass refusing the pair once a pass has been handed to the gate.
insertPass_RejectAfterScheduling(s, TargetPassID, InsertedPassID) ==
    IF s.fatal # NoError THEN s
    ELSE IF TargetPassID = InsertedPassID THEN Fail(s, "Insert a pass after itself!")
    ELSE IF s.cand # <<>> THEN Fail(s, "PassConfig is immutable")
    ELSE [s EXCEPT !.InsertedPasses = Append(@, <<TargetPassID, InsertedPassID>>)]

insertPass(s, TargetPassID, InsertedPassID) ==
    IF s.fatal # NoError THEN s
    ELSE IF TargetPassID = InsertedPassID THEN Fail(s, "Insert a pass after itself!")
    ELSE [s EXCEPT !.InsertedPasses = Append(@, <<TargetPassID, InsertedPassID>>)]

----------------------------------------------------------------------------
(* Register Allocation Pass Configuration *)

\* The constructors registered with RegisterRegAlloc that the file names; the
\* first is the "default" entry.
RegAllocCtors ==
    {"useDefaultRegisterAllocator", "createFastRegisterAllocator",
     "createGreedyRegisterAllocator"}

\* Ctor(): the pass a registered constructor creates.
callCtor(Ctor) ==
    CASE Ctor = "createFastRegisterAllocator" -> "RAFast"
      [] Ctor = "createGreedyRegisterAllocator" -> "RAGreedy"
      [] Ctor = "useDefaultRegisterAllocator" -> Null

\* The target's allocator, greedy whatever the mode.
createTargetRegisterAllocator_AlwaysGreedy(Optimized) == "RAGreedy"

createTargetRegisterAllocator(Optimized) ==
    IF Optimized THEN "RAGreedy" ELSE "RAFast"

createRegAllocPass(s, Optimized) ==
    IF s.fatal # NoError THEN s
    ELSE
      LET Default == s.RegAllocDefault
          Ctor == IF Default = Null THEN RegAlloc ELSE Default
          t == IF Default = Null THEN [s EXCEPT !.RegAllocDefault = RegAlloc] ELSE s
          P == IF Ctor # "useDefaultRegisterAllocator" THEN callCtor(Ctor)
               ELSE createTargetRegisterAllocator(Optimized)
      IN [t EXCEPT !.ret = P,
                   !.allocs = Append(@, [Optimized |-> Optimized, pass |-> P])]

----------------------------------------------------------------------------
(* The Stage Sequencer: the machine passes.                                   *)
(*                                                                            *)
(* A stage routine is the sequence of its statements, chosen by the flags     *)
(* and the optimization level as its conditions choose them; Run executes     *)
(* such a sequence on a state, statement after statement.                     *)

\* CodeGenOpt::Level
OptLevels == {"None", "Less", "Default", "Aggressive"}

getOptLevel == OptLevel

\* addPass(&ID);
AddPass(ID) == [op |-> "addPass(AnalysisID)", ID |-> ID, then |-> <<>>]
\* if (addPass(&ID)) { body }
IfAddPass(ID, body) == [op |-> "if (addPass(AnalysisID))", ID |-> ID, then |-> body]
\* addPass(P);
AddPassPtr(P) == [op |-> "addPass(Pass*)", ID |-> P, then |-> <<>>]
\* printAndVerify(Banner);
PrintAndVerify == [op |-> "printAndVerify", ID |-> Null, then |-> <<>>]
\* a call of a stage routine without arguments
CallStage(body) == [op |-> "call", ID |-> Null, then |-> body]
\* addOptimizedRegAlloc(createRegAllocPass(true));
AddOptimizedRegAlloc == [op |-> "addOptimizedRegAlloc", ID |-> Null, then |-> <<>>]
\* addFastRegAlloc(createRegAllocPass(false));
AddFastRegAlloc == [op |-> "addFastRegAlloc", ID |-> Null, then |-> <<>>]
\* the statements on -print-machineinstrs that addMachinePasses starts with
HandlePrintMachineInstrs == [op |-> "print-machineinstrs", ID |-> Null, then |-> <<>>]

printAndVerify(s) ==
    LET t == IF s.PrintMachineCode THEN addPass(s, "MachineFunctionPrinterPass") ELSE s
    IN IF VerifyMachineCode THEN addPass(t, "MachineVerifierPass") ELSE t

\* The addPre/Post hooks of the target: the header's implementations are
\* empty and report that they added nothing.
addPreRegAlloc == FALSE
addPostRegAlloc == FALSE
addPreSched2 == FALSE
addPreEmitPass == FALSE
addPreRewrite == FALSE
addFinalizeRegAlloc == FALSE

addMachineSSAOptimization ==
    <<IfAddPass("EarlyTailDuplicateID", <<PrintAndVerify>>),
      AddPass("OptimizePHIsID"),
      AddPass("StackColoringID"),
      AddPass("LocalStackSlotAllocationID"),
      AddPass("DeadMachineInstructionElimID"),
      PrintAndVerify,
      AddPass("EarlyIfConverterID"),
      AddPass("MachineLICMID"),
      AddPass("MachineCSEID"),
      AddPass("MachineSinkingID"),
      PrintAndVerify,
      AddPass("PeepholeOptimizerID"),
      PrintAndVerify>>

\* The optimized path that is taken whatever the optimization level.
getOptimizeRegAlloc_IgnoreLevel ==
    CASE OptimizeRegAlloc = "BOU_UNSET" -> TRUE
      [] OptimizeRegAlloc = "BOU_TRUE" -> TRUE
      [] OptimizeRegAlloc = "BOU_FALSE" -> FALSE

\* The path chosen by the optimization level alone.
getOptimizeRegAlloc_LevelOnly == getOptLevel # "None"

getOptimizeRegAlloc ==
    CASE OptimizeRegAlloc = "BOU_UNSET" -> getOptLevel # "None"
      [] OptimizeRegAlloc = "BOU_TRUE" -> TRUE
      [] OptimizeRegAlloc = "BOU_FALSE" -> FALSE

addFastRegAlloc(RegAllocPass) ==
    <<AddPass("PHIEliminationID"),
      AddPass("TwoAddressInstructionPassID"),
      AddPassPtr(RegAllocPass),
      PrintAndVerify>>

\* The optimized path eliminating PHIs the ordinary way whatever the flag.
addOptimizedRegAlloc_PHIAlways(RegAllocPass) ==
    <<AddPass("ProcessImplicitDefsID"),
      AddPass("LiveVariablesID")>>
    \o <<AddPass("MachineLoopInfoID"), AddPass("PHIEliminationID")>>
    \o (IF EarlyLiveIntervals THEN <<AddPass("LiveIntervalsID")>> ELSE <<>>)
    \o <<AddPass("TwoAddressInstructionPassID")>>
    \o (IF EnableStrongPHIElim THEN <<AddPass("StrongPHIEliminationID")>> ELSE <<>>)
    \o <<AddPass("RegisterCoalescerID"),
         IfAddPass("MachineSchedulerID", <<PrintAndVerify>>),
         AddPassPtr(RegAllocPass),
         PrintAndVerify>>
    \o (IF addPreRewrite THEN <<PrintAndVerify>> ELSE <<>>)
    \o <<AddPass("VirtRegRewriterID"),
         PrintAndVerify>>
    \o (IF addFinalizeRegAlloc THEN <<PrintAndVerify>> ELSE <<>>)
    \o <<AddPass("StackSlotColoringID"),
         AddPass("PostRAMachineLICMID"),
         PrintAndVerify>>

addOptimizedRegAlloc(RegAllocPass) ==
    <<AddPass("ProcessImplicitDefsID"),
      AddPass("LiveVariablesID")>>
    \o (IF ~EnableStrongPHIElim
        THEN <<AddPass("MachineLoopInfoID"), AddPass("PHIEliminationID")>>
        ELSE <<>>)
    \o (IF EarlyLiveIntervals THEN <<AddPass("LiveIntervalsID")>> ELSE <<>>)
    \o <<AddPass("TwoAddressInstructionPassID")>>
    \o (IF EnableStrongPHIElim THEN <<AddPass("StrongPHIEliminationID")>> ELSE <<>>)
    \o <<AddPass("RegisterCoalescerID"),
         IfAddPass("MachineSchedulerID", <<PrintAndVerify>>),
         AddPassPtr(RegAllocPass),
         PrintAndVerify>>
    \o (IF addPreRewrite THEN <<PrintAndVerify>> ELSE <<>>)
    \o <<AddPass("VirtRegRewriterID"),
         PrintAndVerify>>
    \o (IF addFinalizeRegAlloc THEN <<PrintAndVerify>> ELSE <<>>)
    \o <<AddPass("StackSlotColoringID"),
         AddPass("PostRAMachineLICMID"),
         PrintAndVerify>>

addMachineLateOptimization ==
    <<IfAddPass("BranchFolderPassID", <<PrintAndVerify>>),
      IfAddPass("TailDuplicateID", <<PrintAndVerify>>),
      IfAddPass("MachineCopyPropagationID", <<PrintAndVerify>>)>>

\* Block placement taking the legacy pass when the new one is not disabled.
addBlockPlacement_Legacy ==
    <<IfAddPass(IF DisableBlockPlacement
                THEN "MachineBlockPlacementID"
                ELSE "CodePlacementOptID",
                (IF EnableBlockPlacementStats
                 THEN <<AddPass("MachineBlockPlacementStatsID")>>
                 ELSE <<>>)
                \o <<PrintAndVerify>>)>>

\* Block placement collecting its statistics whether or not a placement pass
\* was scheduled.
addBlockPlacement_StatsAlways ==
    <<AddPass(IF ~DisableBlockPlacement
              THEN "MachineBlockPlacementID"
              ELSE "CodePlacementOptID")>>
    \o (IF EnableBlockPlacementStats
        THEN <<AddPass("MachineBlockPlacementStatsID")>>
        ELSE <<>>)
    \o <<PrintAndVerify>>

addBlockPlacement ==
    <<IfAddPass(IF ~DisableBlockPlacement
                THEN "MachineBlockPlacementID"
                ELSE "CodePlacementOptID",
                (IF EnableBlockPlacementStats
                 THEN <<AddPass("MachineBlockPlacementStatsID")>>
                 ELSE <<>>)
                \o <<PrintAndVerify>>)>>

\* PassRegistry::getPassInfo(Name)->getTypeInfo(), Null when the registry
\* knows no pass of that name.
getPassInfo(Name) ==
    CASE Name = "machine-cse" -> "MachineCSEID"
      [] Name = "print-machineinstrs" -> "MachineFunctionPrinterPass"
      [] OTHER -> Null

\* The handling of -print-machineinstrs that addMachinePasses starts with.
addPrintMachineInstrs(s) ==
    IF s.fatal # NoError THEN s
    ELSE IF PrintMachineInstrs = "" THEN [s EXCEPT !.PrintMachineCode = TRUE]
    ELSE IF PrintMachineInstrs # "option-unspecified"
    THEN LET TID == getPassInfo(PrintMachineInstrs)
             IID == getPassInfo("print-machineinstrs")
         IN IF TID = Null \/ IID = Null THEN Fail(s, "Pass ID not registered!")
            ELSE insertPass(s, TID, IID)
    ELSE s

\* The machine passes with the late optimizations at every level.
addMachinePasses_LateOptAlways ==
    <<HandlePrintMachineInstrs,
      PrintAndVerify,
      IfAddPass("ExpandISelPseudosID", <<PrintAndVerify>>)>>
    \o (IF getOptLevel # "None"
        THEN <<CallStage(addMachineSSAOptimization)>>
        ELSE <<AddPass("LocalStackSlotAllocationID")>>)
    \o (IF addPreRegAlloc THEN <<PrintAndVerify>> ELSE <<>>)
    \o (IF getOptimizeRegAlloc THEN <<AddOptimizedRegAlloc>> ELSE <<AddFastRegAlloc>>)
    \o (IF addPostRegAlloc THEN <<PrintAndVerify>> ELSE <<>>)
    \o <<AddPass("PrologEpilogCodeInserterID"),
         PrintAndVerify>>
    \o <<CallStage(addMachineLateOptimization)>>
    \o <<AddPass("ExpandPostRAPseudosID"),
         PrintAndVerify>>
    \o (IF addPreSched2 THEN <<PrintAndVerify>> ELSE <<>>)
    \o (IF getOptLevel # "None"
        THEN <<AddPass("PostRASchedulerID"), PrintAndVerify>>
        ELSE <<>>)
    \o <<AddPass("GCMachineCodeAnalysisID")>>
    \o (IF PrintGCInfo THEN <<AddPassPtr("GCInfoPrinter")>> ELSE <<>>)
    \o (IF getOptLevel # "None" THEN <<CallStage(addBlockPlacement)>> ELSE <<>>)
    \o (IF addPreEmitPass THEN <<PrintAndVerify>> ELSE <<>>)

addMachinePasses ==
    <<HandlePrintMachineInstrs,
      PrintAndVerify,
      IfAddPass("ExpandISelPseudosID", <<PrintAndVerify>>)>>
    \o (IF getOptLevel # "None"
        THEN <<CallStage(addMachineSSAOptimization)>>
        ELSE <<AddPass("LocalStackSlotAllocationID")>>)
    \o (IF addPreRegAlloc THEN <<PrintAndVerify>> ELSE <<>>)
    \o (IF getOptimizeRegAlloc THEN <<AddOptimizedRegAlloc>> ELSE <<AddFastRegAlloc>>)
    \o (IF addPostRegAlloc THEN <<PrintAndVerify>> ELSE <<>>)
    \o <<AddPass("PrologEpilogCodeInserterID"),
         PrintAndVerify>>
    \o (IF getOptLevel # "None" THEN <<CallStage(addMachineLateOptimization)>> ELSE <<>>)
    \o <<AddPass("ExpandPostRAPseudosID"),
         PrintAndVerify>>
    \o (IF addPreSched2 THEN <<PrintAndVerify>> ELSE <<>>)
    \o (IF getOptLevel # "None"
        THEN <<AddPass("PostRASchedulerID"), PrintAndVerify>>
        ELSE <<>>)
    \o <<AddPass("GCMachineCodeAnalysisID")>>
    \o (IF PrintGCInfo THEN <<AddPassPtr("GCInfoPrinter")>> ELSE <<>>)
    \o (IF getOptLevel # "None" THEN <<CallStage(addBlockPlacement)>> ELSE <<>>)
    \o (IF addPreEmitPass THEN <<PrintAndVerify>> ELSE <<>>)

\* The state that the one computation in S leaves.
TheOnly(S) == CHOOSE t \in S : TRUE

RECURSIVE Run(_, _)
RECURSIVE exec(_, _)

\* One statement, executed on s.
exec(s, stmt) ==
    CASE stmt.op = "addPass(AnalysisID)" -> addPassID(s, stmt.ID)
      [] stmt.op = "if (addPass(AnalysisID))" ->
           TheOnly({IF t.fatal = NoError /\ t.ret # Null THEN Run(t, stmt.then) ELSE t :
                       t \in {addPassID(s, stmt.ID)}})
      [] stmt.op = "addPass(Pass*)" -> addPass(s, stmt.ID)
      [] stmt.op = "printAndVerify" -> printAndVerify(s)
      [] stmt.op = "call" -> Run(s, stmt.then)
      [] stmt.op = "addOptimizedRegAlloc" ->
           TheOnly({Run(r, addOptimizedRegAlloc(r.ret)) :
                       r \in {createRegAllocPass(s, TRUE)}})
      [] stmt.op = "addFastRegAlloc" ->
           TheOnly({Run(r, addFastRegAlloc(r.ret)) :
                       r \in {createRegAllocPass(s, FALSE)}})
      [] stmt.op = "print-machineinstrs" -> addPrintMachineInstrs(s)

\* The statements of body, executed on s one after the other; the state each
\* leaves is the state the next one starts in.
Run(s, body) ==
    IF body = <<>> THEN s
    ELSE TheOnly({Run(t, Tail(body)) : t \in {exec(s, Head(body))}})

----------------------------------------------------------------------------
(* The calls a client makes on the object, as actions. *)

Call(op, a, b, ret) == [op |-> op, a |-> a, b |-> b, ret |-> ret]

\* The pipelines of the process that build concurrently.
Pipelines == {"pipeline1", "pipeline2"}

\* No createRegAllocPass call in flight.
Idle == [pc |-> "idle", Optimized |-> FALSE, Ctor |-> Null]

\* The process's flags, the target machine, the per-pipeline options and the
\* calls in flight on other pipelines are not changed by these calls.
Frame == UNCHANGED <<opts, OptLevel, RegAlloc, Initialized, DisableVerify,
                     EnableTailMerge, frames>>

\* The state the constructor of a target's pass configuration leaves, for the
\* flags o, the -regalloc option Ctor and the optimization level l: Table and
\* Inserted are what the target's constructor made of the Substitution Table
\* and the Insertion List.
InitProcess(o, l, Table, Inserted, Ctor) ==
    /\ opts = o
    /\ OptLevel = l
    /\ PrintMachineCode = FALSE
    /\ TargetPasses = Table
    /\ InsertedPasses = Inserted
    /\ StartAfter = Null
    /\ StopAfter = Null
    /\ Started = TRUE
    /\ Stopped = FALSE
    /\ Initialized = FALSE
    /\ DisableVerify = FALSE
    /\ EnableTailMerge = TRUE
    /\ PM = <<>>
    /\ cand = <<>>
    /\ RegAlloc = Ctor
    /\ RegAllocDefault = Null
    /\ allocs = <<>>
    /\ frames = [p \in Pipelines |-> Idle]
    /\ fatal = NoError
    /\ last = Call("TargetPassConfig", Null, Null, Null)
    /\ nconf = 0
    /\ nsched = 0

\* The same with -regalloc not given.
InitConfigured(o, l, Table, Inserted) ==
    InitProcess(o, l, Table, Inserted, "useDefaultRegisterAllocator")

\* The state the constructor of TargetPassConfig itself leaves.
InitWith(o, l) == InitConfigured(o, l, CtorTargetPasses, <<>>)

\* setStartStopPasses(Start, Stop): configures the window of the gate.
CallSetStartStopPasses(Start, Stop) ==
    /\ fatal = NoError
    /\ StartAfter' = Start
    /\ StopAfter' = Stop
    /\ Started' = (Start = Null)
    /\ last' = Call("setStartStopPasses", Start, Stop, Null)
    /\ nconf' = nconf + 1
    /\ UNCHANGED <<TargetPasses, InsertedPasses, Stopped, PM, cand, PrintMachineCode,
                   RegAllocDefault, allocs, fatal, nsched>>
    /\ Frame

CallSubstitutePass(StandardID, TargetID) ==
    /\ fatal = NoError
    /\ TargetPasses' = substitutePass(TargetPasses, StandardID, TargetID)
    /\ last' = Call("substitutePass", StandardID, TargetID, Null)
    /\ nconf' = nconf + 1
    /\ UNCHANGED <<InsertedPasses, StartAfter, StopAfter, Started, Stopped, PM, cand,
                   PrintMachineCode, RegAllocDefault, allocs, fatal, nsched>>
    /\ Frame

CallInsertPass(TargetPassID, InsertedPassID) ==
    /\ fatal = NoError
    /\ Commit(insertPass(Cur, TargetPassID, InsertedPassID))
    /\ last' = Call("insertPass", TargetPassID, InsertedPassID, Null)
    /\ nconf' = nconf + 1
    /\ UNCHANGED <<TargetPasses, StartAfter, StopAfter, nsched>>
    /\ Frame

\* addPass(P) for a pass P of identity PassID that the caller created.
CallAddPass(PassID) ==
    /\ fatal = NoError
    /\ Commit(addPass(Cur, PassID))
    /\ last' = Call("addPass(Pass *)", PassID, Null, Null)
    /\ nsched' = nsched + 1
    /\ UNCHANGED <<TargetPasses, StartAfter, StopAfter, nconf>>
    /\ Frame

CallAddPassID(PassID) ==
    /\ fatal = NoError
    /\ LET s == addPassID(Cur, PassID)
       IN /\ Commit(s)
          /\ last' = Call("addPass(AnalysisID)", PassID, getPassSubstitution(PassID), s.ret)
    /\ nsched' = nsched + 1
    /\ UNCHANGED <<TargetPasses, StartAfter, StopAfter, nconf>>
    /\ Frame

\* getPassSubstitution(ID), called by a client: a const member function.
CallGetPassSubstitution(ID) ==
    /\ fatal = NoError
    /\ last' = Call("getPassSubstitution", ID, Null, getPassSubstitution(ID))
    /\ nsched' = nsched + 1
    /\ UNCHANGED <<TargetPasses, InsertedPasses, StartAfter, StopAfter, Started,
                   Stopped, PM, cand, PrintMachineCode, RegAllocDefault, allocs,
                   fatal, nconf>>
    /\ Frame

\* The per-pipeline options that setOpt is called on.
PipelineOpts == {"DisableVerify", "EnableTailMerge"}

\* setOpt(Opt, Val), Opt one of the per-pipeline options
CallSetOpt(Opt, Val) ==
    /\ fatal = NoError
    /\ IF Initialized
       THEN /\ fatal' = "PassConfig is immutable"
            /\ UNCHANGED <<DisableVerify, EnableTailMerge>>
       ELSE /\ fatal' = fatal
            /\ DisableVerify' = IF Opt = "DisableVerify" THEN Val ELSE DisableVerify
            /\ EnableTailMerge' = IF Opt = "EnableTailMerge" THEN Val ELSE EnableTailMerge
    /\ last' = Call("setOpt", Opt, Val, Null)
    /\ nconf' = nconf + 1
    /\ UNCHANGED <<opts, OptLevel, RegAlloc, Initialized, TargetPasses, InsertedPasses,
                   StartAfter, StopAfter, Started, Stopped, PM, cand,
                   PrintMachineCode, RegAllocDefault, allocs, frames, nsched>>

\* setInitialized(): the pass manager has taken the configuration over.
CallSetInitialized ==
    /\ fatal = NoError
    /\ Initialized' = TRUE
    /\ last' = Call("setInitialized", Null, Null, Null)
    /\ UNCHANGED <<opts, OptLevel, RegAlloc, DisableVerify, EnableTailMerge,
                   TargetPasses, InsertedPasses, StartAfter, StopAfter, Started,
                   Stopped, PM, cand, PrintMachineCode, RegAllocDefault, allocs,
                   frames, fatal, nconf, nsched>>

----------------------------------------------------------------------------
(* SpecGate: a window is configured, then passes are handed to the gate. *)

\* The pass kinds handed to the gate.
GatePasses == {"PHIEliminationID", "TwoAddressInstructionPassID",
               "RegisterCoalescerID", "VirtRegRewriterID"}

InitGate == InitWith(DefaultOpts, "Default")

NextGate ==
    \/ /\ nconf = 0 /\ nsched = 0
       /\ \E Start \in GatePasses \cup {Null}, Stop \in GatePasses \cup {Null} :
             CallSetStartStopPasses(Start, Stop)
    \/ /\ Len(cand) < MaxCand
       /\ \E P \in GatePasses : CallAddPass(P)

SpecGate == InitGate /\ [][NextGate]_vars

----------------------------------------------------------------------------
(* Spec: one pipeline is configured and passes are scheduled on it.  The    *)
(* code orders configuration and scheduling calls in no way, so they        *)
(* interleave.                                                              *)

\* The identities scheduled: one without an Override Rule, one with a
\* disable rule, a pseudo ID the constructor substitutes by a real pass and
\* the tri-state one the constructor substitutes by null.
SchedIDs == {"PHIEliminationID", "TailDuplicateID", "EarlyTailDuplicateID",
             "MachineSchedulerID"}

\* The substitutions a target makes: to null, to another pass, and to an
\* identity that names no pass.
SubstChoices ==
    {<<"PHIEliminationID", Null>>, <<"PHIEliminationID", "TailDuplicateID">>,
     <<"TailDuplicateID", "EarlyTailDuplicateID">>}

\* The insertions a target makes: after a substituted anchor, of an extra
\* that is substituted to null, of an extra with a disable rule, a cycle, a
\* null extra, an extra equal to its anchor, an extra that names no pass.
InsertChoices ==
    {<<"EarlyTailDuplicateID", "PHIEliminationID">>,
     <<"PHIEliminationID", "MachineSchedulerID">>,
     <<"PHIEliminationID", "TailDuplicateID">>,
     <<"TailDuplicateID", "PHIEliminationID">>,
     <<"PHIEliminationID", Null>>,
     <<"PHIEliminationID", "PHIEliminationID">>,
     <<"PHIEliminationID", "EarlyTailDuplicateID">>}

\* The windows configured: a stop boundary only, both on one pass, both.
WindowChoices ==
    {<<Null, "TailDuplicateID">>, <<"TailDuplicateID", "TailDuplicateID">>,
     <<"TailDuplicateID", "PHIEliminationID">>}

SchedOpts == {[DefaultOpts EXCEPT !.DisableTailDuplicate = d] : d \in BOOLEAN}

Init == \E o \in SchedOpts : InitWith(o, "Default")

Next ==
    \/ /\ nconf < MaxConfig /\ nsched = 0
       /\ \E w \in WindowChoices : CallSetStartStopPasses(w[1], w[2])
    \/ /\ nconf < MaxConfig
       /\ \E c \in SubstChoices : CallSubstitutePass(c[1], c[2])
    \/ /\ nconf < MaxConfig
       /\ \E c \in InsertChoices : CallInsertPass(c[1], c[2])
    \/ /\ nsched < MaxSched
       /\ \E ID \in SchedIDs : CallAddPassID(ID)

Spec == Init /\ [][Next]_vars

----------------------------------------------------------------------------
(* SpecResolve: the resolution of one scheduling request, for every standard *)
(* identity, under the command lines that give at most MaxResolveFlags of    *)
(* the flags of the Override Rules and a target that substitutes one         *)
(* identity and may insert a pass after it.                                  *)

ResolveArgs ==
    {"DisablePostRA", "DisableBranchFold", "DisableTailDuplicate",
     "DisableEarlyTailDup", "DisableCodePlace", "DisableSSC", "DisableMachineDCE",
     "EnableEarlyIfConversion", "DisableMachineLICM", "DisableMachineCSE",
     "DisablePostRAMachineLICM", "DisableMachineSink", "DisableCopyProp",
     "EnableMachineSched=true", "EnableMachineSched=false"}

\* A pass other than S, for the target to put in its place or after it.
OtherPass(S) ==
    IF S = "PHIEliminationID" THEN "TwoAddressInstructionPassID" ELSE "PHIEliminationID"

InitResolve ==
    \E o \in OptsOf(ResolveArgs, MaxResolveFlags), S \in StandardIDs,
       T \in {"unsubstituted", "other", Null}, ins \in BOOLEAN :
       InitConfigured(o, "Default",
           CASE T = "unsubstituted" -> CtorTargetPasses
             [] T = "other" -> substitutePass(CtorTargetPasses, S, OtherPass(S))
             [] T = Null -> disablePass(CtorTargetPasses, S),
           IF ins THEN <<<<S, OtherPass(S)>>>> ELSE <<>>)

NextResolve ==
    /\ nsched = 0
    /\ \E ID \in StandardIDs : CallAddPassID(ID)

SpecResolve == InitResolve /\ [][NextResolve]_vars

----------------------------------------------------------------------------
(* SpecOverride: applyOverride on every substituted identity, flag value and *)
(* fallback identity.                                                        *)

\* applyOverride(TargetID, Override, StandardID), called on its own.
CallApplyOverride(TargetID, Override, StandardID) ==
    /\ fatal = NoError
    /\ LET FinalID == applyOverride(TargetID, Override, StandardID)
       IN IF FinalID = TargetCannotEnable
          THEN /\ fatal' = TargetCannotEnable
               /\ last' = [op |-> "applyOverride", a |-> TargetID, b |-> Override,
                           c |-> StandardID, ret |-> Null]
          ELSE /\ fatal' = fatal
               /\ last' = [op |-> "applyOverride", a |-> TargetID, b |-> Override,
                           c |-> StandardID, ret |-> FinalID]
    /\ nsched' = nsched + 1
    /\ UNCHANGED <<TargetPasses, InsertedPasses, StartAfter, StopAfter, Started,
                   Stopped, PM, cand, PrintMachineCode, RegAllocDefault, allocs,
                   nconf>>
    /\ Frame

InitOverride == InitWith(DefaultOpts, "Default")

NextOverride ==
    /\ nsched = 0
    /\ \E TargetID \in StandardIDs \cup {Null}, Override \in BoolOrDefault,
          StandardID \in StandardIDs \cup {Null} :
          CallApplyOverride(TargetID, Override, StandardID)

SpecOverride == InitOverride /\ [][NextOverride]_vars

----------------------------------------------------------------------------
(* SpecRegAlloc: pipelines of one process ask for their allocator pass, and  *)
(* the process-wide default may be set through RegisterRegAlloc::setDefault. *)

CallCreateRegAllocPass(Optimized) ==
    /\ fatal = NoError
    /\ LET s == createRegAllocPass(Cur, Optimized)
       IN /\ Commit(s)
          /\ last' = [op |-> "createRegAllocPass", a |-> Optimized, ret |-> s.ret]
    /\ nsched' = nsched + 1
    /\ UNCHANGED <<TargetPasses, StartAfter, StopAfter, nconf>>
    /\ Frame

\* RegisterRegAlloc::setDefault(Ctor)
CallSetDefault(Ctor) ==
    /\ fatal = NoError
    /\ RegAllocDefault' = Ctor
    /\ last' = [op |-> "setDefault", a |-> Ctor, ret |-> Null]
    /\ nconf' = nconf + 1
    /\ UNCHANGED <<TargetPasses, InsertedPasses, StartAfter, StopAfter, Started,
                   Stopped, PM, cand, PrintMachineCode, allocs, fatal, nsched>>
    /\ Frame

InitRegAlloc ==
    \E Ctor \in RegAllocCtors :
       InitProcess(DefaultOpts, "Default", CtorTargetPasses, <<>>, Ctor)

NextRegAlloc ==
    /\ nconf + nsched < MaxAllocCalls
    /\ \/ \E Optimized \in BOOLEAN : CallCreateRegAllocPass(Optimized)
       \/ \E Ctor \in RegAllocCtors : CallSetDefault(Ctor)

SpecRegAlloc == InitRegAlloc /\ [][NextRegAlloc]_vars

----------------------------------------------------------------------------
(* SpecConcurrent: the pipelines of one process call createRegAllocPass      *)
(* concurrently.  Nothing guards RegisterRegAlloc's default, so a call is    *)
(* its statements, interleaved with those of the other pipeline's call:      *)
(*   getDefault  Ctor = RegisterRegAlloc::getDefault(); if (!Ctor) ...       *)
(*   setDefault  Ctor = RegAlloc; RegisterRegAlloc::setDefault(RegAlloc);    *)
(*   return      return Ctor(), or the target's allocator                    *)

\* The unchanged part of a step of a createRegAllocPass call.
InCall ==
    UNCHANGED <<opts, OptLevel, RegAlloc, Initialized, DisableVerify, EnableTailMerge,
                TargetPasses, InsertedPasses, StartAfter, StopAfter, Started,
                Stopped, PM, cand, PrintMachineCode, fatal, nconf>>

\* The calls begun so far.
CallsBegun ==
    Len(allocs) + Cardinality({p \in Pipelines : frames[p].pc # "idle"})

\* The pipeline p calls createRegAllocPass(Optimized).
BeginCreateRegAllocPass(p, Optimized) ==
    /\ frames[p].pc = "idle"
    /\ frames' = [frames EXCEPT ![p] =
                      [pc |-> "getDefault", Optimized |-> Optimized, Ctor |-> Null]]
    /\ UNCHANGED <<RegAllocDefault, allocs, last, nsched>>
    /\ InCall

\* The read of the default.  A read that races with the other pipeline's
\* write returns the value from before or from after it: the two orders of
\* the two steps.
GetDefault(p) ==
    /\ frames[p].pc = "getDefault"
    /\ frames' = [frames EXCEPT ![p].Ctor = RegAllocDefault,
                                ![p].pc = IF RegAllocDefault = Null THEN "setDefault"
                                          ELSE "return"]
    /\ UNCHANGED <<RegAllocDefault, allocs, last, nsched>>
    /\ InCall

\* The initialization of the global default memoizing the allocator that the
\* call resolved to, not the option.
SetDefault_MemoizeResolved(p) ==
    /\ frames[p].pc = "setDefault"
    /\ LET Ctor == IF RegAlloc # "useDefaultRegisterAllocator" THEN RegAlloc
                   ELSE IF frames[p].Optimized THEN "createGreedyRegisterAllocator"
                   ELSE "createFastRegisterAllocator"
       IN /\ frames' = [frames EXCEPT ![p].Ctor = Ctor, ![p].pc = "return"]
          /\ RegAllocDefault' = Ctor
    /\ UNCHANGED <<allocs, last, nsched>>
    /\ InCall

SetDefault(p) ==
    /\ frames[p].pc = "setDefault"
    /\ frames' = [frames EXCEPT ![p].Ctor = RegAlloc, ![p].pc = "return"]
    /\ RegAllocDefault' = RegAlloc
    /\ UNCHANGED <<allocs, last, nsched>>
    /\ InCall

ReturnRegAllocPass(p) ==
    /\ frames[p].pc = "return"
    /\ LET P == IF frames[p].Ctor # "useDefaultRegisterAllocator"
                THEN callCtor(frames[p].Ctor)
                ELSE createTargetRegisterAllocator(frames[p].Optimized)
       IN /\ allocs' = Append(allocs, [Optimized |-> frames[p].Optimized, pass |-> P])
          /\ last' = [op |-> "createRegAllocPass", a |-> frames[p].Optimized, ret |-> P,
                      by |-> p]
    /\ frames' = [frames EXCEPT ![p] = Idle]
    /\ nsched' = nsched + 1
    /\ UNCHANGED RegAllocDefault
    /\ InCall

InitConcurrent ==
    \E Ctor \in RegAllocCtors :
       InitProcess(DefaultOpts, "Default", CtorTargetPasses, <<>>, Ctor)

NextConcurrent ==
    \E p \in Pipelines :
       \/ /\ CallsBegun < MaxAllocCalls
          /\ \E Optimized \in BOOLEAN : BeginCreateRegAllocPass(p, Optimized)
       \/ GetDefault(p)
       \/ SetDefault(p)
       \/ ReturnRegAllocPass(p)

SpecConcurrent == InitConcurrent /\ [][NextConcurrent]_vars

----------------------------------------------------------------------------
(* SpecMachine: addMachinePasses on a freshly constructed configuration, for  *)
(* every optimization level, -regalloc choice and command line that gives at  *)
(* most MaxFlagsSet flags.                                                    *)

CallAddMachinePasses ==
    /\ fatal = NoError
    /\ Commit(Return(Run(Cur, addMachinePasses), Null))
    /\ last' = [op |-> "addMachinePasses", a |-> Null, ret |-> Null]
    /\ nsched' = nsched + 1
    /\ UNCHANGED <<TargetPasses, StartAfter, StopAfter, nconf>>
    /\ Frame

MachineArgs == BoolFlags \cup TriStateArgs \cup PrintMachineInstrsArgs

InitMachine ==
    \E o \in OptsOf(MachineArgs, MaxFlagsSet), l \in OptLevels, Ctor \in RegAllocCtors :
       InitProcess(o, l, CtorTargetPasses, <<>>, Ctor)

NextMachine ==
    /\ nsched = 0
    /\ CallAddMachinePasses

SpecMachine == InitMachine /\ [][NextMachine]_vars

----------------------------------------------------------------------------
(* SpecFreeze: configuration calls, setOpt and setInitialized among them,    *)
(* interleaved with scheduling calls on one pipeline.                        *)

InitFreeze == InitWith(DefaultOpts, "Default")

NextFreeze ==
    \/ /\ nsched < MaxSched
       /\ \E ID \in SchedIDs : CallAddPassID(ID)
    \/ /\ nconf < MaxConfig
       /\ \E c \in SubstChoices : CallSubstitutePass(c[1], c[2])
    \/ /\ nconf < MaxConfig
       /\ \E c \in InsertChoices : CallInsertPass(c[1], c[2])
    \/ /\ nconf < MaxConfig
       /\ \E Opt \in PipelineOpts, Val \in BOOLEAN : CallSetOpt(Opt, Val)
    \/ /\ ~Initialized
       /\ CallSetInitialized

SpecFreeze == InitFreeze /\ [][NextFreeze]_vars

----------------------------------------------------------------------------
(* SpecPlacement: addMachinePasses for every combination of the block        *)
(* placement flags and every optimization level, on a configuration whose    *)
(* window, when one is configured, has a boundary in or next to the block    *)
(* placement stage.                                                          *)

PlacementArgs ==
    {"DisableBlockPlacement", "DisableCodePlace", "EnableBlockPlacementStats"}

\* The windows configured: <<StartAfter, StopAfter>>.
PlacementWindows ==
    {<<"MachineBlockPlacementID", Null>>, <<"CodePlacementOptID", Null>>,
     <<Null, "MachineBlockPlacementID">>, <<Null, "CodePlacementOptID">>,
     <<"GCMachineCodeAnalysisID", Null>>, <<Null, "GCMachineCodeAnalysisID">>,
     <<"MachineBlockPlacementID", "MachineBlockPlacementStatsID">>}

InitPlacement ==
    \E o \in OptsOf(PlacementArgs, Cardinality(PlacementArgs)), l \in OptLevels :
       InitWith(o, l)

NextPlacement ==
    \/ /\ nconf = 0 /\ nsched = 0
       /\ \E w \in PlacementWindows : CallSetStartStopPasses(w[1], w[2])
    \/ /\ nsched = 0
       /\ CallAddMachinePasses

SpecPlacement == InitPlacement /\ [][NextPlacement]_vars

----------------------------------------------------------------------------
(* SpecMisched: a target substitutes MachineSchedulerID, or leaves the       *)
(* constructor's null substitution, and addMachinePasses runs, for every     *)
(* optimization level and the command lines on -enable-misched,              *)
(* -optimize-regalloc and -verify-machineinstrs.                             *)

MischedArgs ==
    {"EnableMachineSched=true", "EnableMachineSched=false",
     "OptimizeRegAlloc=true", "OptimizeRegAlloc=false", "VerifyMachineCode"}

\* What a target puts in the place of MachineSchedulerID: nothing, the
\* standard scheduler itself (enablePass), a scheduler of its own choice.
MischedSubstitutes == {Null, "MachineSchedulerID", "PostRASchedulerID"}

InitMisched ==
    \E o \in OptsOf(MischedArgs, MaxFlagsSet), l \in OptLevels : InitWith(o, l)

NextMisched ==
    \/ /\ nconf = 0 /\ nsched = 0
       /\ \E T \in MischedSubstitutes : CallSubstitutePass("MachineSchedulerID", T)
    \/ /\ nsched = 0
       /\ CallAddMachinePasses

SpecMisched == InitMisched /\ [][NextMisched]_vars

----------------------------------------------------------------------------
(* SpecLateOpt: addMachineLateOptimization on its own, and the whole of      *)
(* addMachinePasses, for every optimization level and every combination of   *)
(* the flags that suppress tail duplication, branch folding, copy            *)
(* propagation and the two occurrences of MachineLICM.                       *)

LateOptArgs ==
    {"DisableBranchFold", "DisableTailDuplicate", "DisableCopyProp",
     "DisableEarlyTailDup", "DisableMachineLICM", "DisablePostRAMachineLICM"}

CallAddMachineLateOptimization ==
    /\ fatal = NoError
    /\ Commit(Return(Run(Cur, addMachineLateOptimization), Null))
    /\ last' = [op |-> "addMachineLateOptimization", a |-> Null, ret |-> Null]
    /\ nsched' = nsched + 1
    /\ UNCHANGED <<TargetPasses, StartAfter, StopAfter, nconf>>
    /\ Frame

InitLateOpt ==
    \E o \in OptsOf(LateOptArgs, Cardinality(LateOptArgs)), l \in OptLevels :
       InitWith(o, l)

NextLateOpt ==
    /\ nsched = 0
    /\ \/ CallAddMachineLateOptimization
       \/ CallAddMachinePasses

SpecLateOpt == InitLateOpt /\ [][NextLateOpt]_vars

----------------------------------------------------------------------------
(* SpecSubst: substitutions are recorded on one pipeline, in any order and   *)
(* over one another, and identities are looked up and scheduled.             *)

\* The identities substituted: none has an Override Rule.
SubstKeys == {"PHIEliminationID", "TwoAddressInstructionPassID"}

\* What they are substituted by: one another, themselves, a third pass, null.
SubstTargets == SubstKeys \cup {"RegisterCoalescerID", Null}

\* The identities looked up: the above, and two the constructor substitutes.
LookupIDs ==
    SubstKeys \cup {"RegisterCoalescerID", "MachineSchedulerID", "EarlyTailDuplicateID"}

InitSubst == InitWith(DefaultOpts, "Default")

NextSubst ==
    \/ /\ nconf < MaxConfig
       /\ \E S \in SubstKeys, T \in SubstTargets : CallSubstitutePass(S, T)
    \/ /\ nsched < MaxSched
       /\ \E ID \in LookupIDs : CallGetPassSubstitution(ID)
    \/ /\ nsched < MaxSched
       /\ \E ID \in SubstKeys : CallAddPassID(ID)

SpecSubst == InitSubst /\ [][NextSubst]_vars

----------------------------------------------------------------------------
(* Claims about the gate. *)

\* The index of the first occurrence of x in seq, 0 when there is none.
FirstIndex(seq, x) ==
    IF \E i \in 1..Len(seq) : seq[i] = x
    THEN CHOOSE i \in 1..Len(seq) : seq[i] = x /\ \A j \in 1..(i - 1) : seq[j] # x
    ELSE 0

StopBeforeStart == "Cannot stop compilation after pass that is not run"

\* C1: when the first candidate equal to StartAfter came strictly before the
\* first candidate equal to StopAfter, the output pipeline is exactly the
\* candidates after the former up to and including the latter, in order.
C1_GateWindowing ==
    LET a == FirstIndex(cand, StartAfter)
        b == FirstIndex(cand, StopAfter)
    IN (a > 0 /\ b > 0 /\ a < b) => PM = SubSeq(cand, a + 1, b)

\* The candidates [A, X, B, Y] with StartAfter = A and StopAfter = B.
C1_Witness ==
    /\ StartAfter = "PHIEliminationID"
    /\ StopAfter = "RegisterCoalescerID"
    /\ cand = <<"PHIEliminationID", "TwoAddressInstructionPassID",
                "RegisterCoalescerID", "VirtRegRewriterID">>
    /\ PM = <<"TwoAddressInstructionPassID", "RegisterCoalescerID">>

\* C2: with a StartAfter boundary configured, once a candidate equal to
\* StopAfter has reached the gate with no candidate equal to StartAfter seen
\* up to and including it, construction has failed with the stop-before-start
\* error at that candidate and the output pipeline is empty.
C2_InvalidWindow ==
    LET b == FirstIndex(cand, StopAfter)
    IN (StartAfter # Null /\ b > 0 /\ \A i \in 1..b : cand[i] # StartAfter)
          => /\ fatal = StopBeforeStart
             /\ Len(cand) = b
             /\ PM = <<>>

\* StartAfter = B and StopAfter = A: the candidate A is where it fails.
C2_Witness ==
    /\ StartAfter = "RegisterCoalescerID"
    /\ StopAfter = "PHIEliminationID"
    /\ cand = <<"PHIEliminationID">>
    /\ fatal = StopBeforeStart

----------------------------------------------------------------------------
(* Claims about the resolution of a scheduling request. *)

\* The identities overridePass binds to a flag through applyDisable.
DisableRuleIDs ==
    {"PostRASchedulerID", "BranchFolderPassID", "TailDuplicateID",
     "EarlyTailDuplicateID", "MachineBlockPlacementID", "CodePlacementOptID",
     "StackSlotColoringID", "DeadMachineInstructionElimID", "EarlyIfConverterID",
     "MachineLICMID", "MachineCSEID", "PostRAMachineLICMID", "MachineSinkingID",
     "MachineCopyPropagationID"}

\* The standard identities overridePass has no rule for.
NoRuleIDs == StandardIDs \ (DisableRuleIDs \cup {"MachineSchedulerID"})

\* The step is a call addPass(ID) of the AnalysisID overload.
IsAddPassID(ID) ==
    /\ nsched' = nsched + 1
    /\ last'.op = "addPass(AnalysisID)"
    /\ last'.a = ID

\* C3: scheduling a standard identity that has no Override Rule and is
\* substituted to null returns null, appends nothing, leaves Started and
\* Stopped as they are and hands no inserted pass to the gate.
C3_SubstitutionPrecedence ==
    [][\A S \in NoRuleIDs :
          (IsAddPassID(S) /\ getPassSubstitution(S) = Null)
             => /\ last'.ret = Null
                /\ PM' = PM
                /\ cand' = cand
                /\ Started' = Started
                /\ Stopped' = Stopped
                /\ fatal' = NoError]_vars

\* Such an identity has been scheduled while an insertion is anchored on it.
C3_Witness ==
    /\ last.op = "addPass(AnalysisID)"
    /\ last.a \in NoRuleIDs
    /\ last.b = Null
    /\ last.ret = Null
    /\ \E i \in 1..Len(InsertedPasses) : InsertedPasses[i][1] = last.a
    /\ PM = <<>>

\* The value overridePass hands to applyDisable for the identity S: the flag
\* the rule of S is bound to (for early if-conversion, the negation of
\* -enable-early-ifcvt).
C4_BoundFlag(S) ==
    CASE S = "PostRASchedulerID" -> DisablePostRA
      [] S = "BranchFolderPassID" -> DisableBranchFold
      [] S = "TailDuplicateID" -> DisableTailDuplicate
      [] S = "EarlyTailDuplicateID" -> DisableEarlyTailDup
      [] S = "MachineBlockPlacementID" -> DisableCodePlace
      [] S = "CodePlacementOptID" -> DisableCodePlace
      [] S = "StackSlotColoringID" -> DisableSSC
      [] S = "DeadMachineInstructionElimID" -> DisableMachineDCE
      [] S = "EarlyIfConverterID" -> ~EnableEarlyIfConversion
      [] S = "MachineLICMID" -> DisableMachineLICM
      [] S = "MachineCSEID" -> DisableMachineCSE
      [] S = "PostRAMachineLICMID" -> DisablePostRAMachineLICM
      [] S = "MachineSinkingID" -> DisableMachineSink
      [] S = "MachineCopyPropagationID" -> DisableCopyProp

\* C4: scheduling an identity that has a disable rule, whatever it is
\* substituted by (nothing, another pass, null): with the flag of the rule
\* true the resolved identity returned is null and nothing is appended; with
\* the flag false the resolved identity is the substituted identity.
C4_OverridePrecedence ==
    [][\A S \in DisableRuleIDs :
          IsAddPassID(S) =>
             IF C4_BoundFlag(S)
             THEN last'.ret = Null /\ PM' = PM /\ cand' = cand /\ fatal' = NoError
             ELSE fatal' = NoError => last'.ret = getPassSubstitution(S)]_vars

\* An identity with a disable rule, substituted by another pass, has been
\* scheduled with its flag true.
C4_Witness ==
    /\ last.op = "addPass(AnalysisID)"
    /\ last.a \in DisableRuleIDs
    /\ C4_BoundFlag(last.a)
    /\ last.b \notin {Null, last.a}
    /\ last.ret = Null
    /\ PM = <<>>

\* C9: applyOverride returns the substituted identity when the flag is unset,
\* and when it is true and that identity is not null; the fallback identity
\* when the flag is true, the substituted identity null and the fallback not;
\* fails with "Target cannot enable pass" when the flag is true and both are
\* null; returns null when the flag is false.
C9_TriStateOverride ==
    last.op = "applyOverride" =>
       LET T == last.a
           S == last.c
       IN CASE last.b = "BOU_UNSET" -> fatal = NoError /\ last.ret = T
            [] last.b = "BOU_TRUE" /\ T # Null -> fatal = NoError /\ last.ret = T
            [] last.b = "BOU_TRUE" /\ T = Null /\ S # Null ->
                  fatal = NoError /\ last.ret = S
            [] last.b = "BOU_TRUE" /\ T = Null /\ S = Null ->
                  fatal = "Target cannot enable pass"
            [] last.b = "BOU_FALSE" -> fatal = NoError /\ last.ret = Null

\* The flag was true, the target had no pass and the standard one was used.
C9_Witness ==
    /\ last.op = "applyOverride"
    /\ last.b = "BOU_TRUE"
    /\ last.a = Null
    /\ last.c = "MachineSchedulerID"
    /\ last.ret = "MachineSchedulerID"

----------------------------------------------------------------------------
(* Claims about the Insertion List. *)

\* The extra identities recorded for the anchor X, in the order recorded.
Extras(X) ==
    LET anchored == SelectSeq(InsertedPasses, LAMBDA p : p[1] = X)
    IN [i \in 1..Len(anchored) |-> anchored[i][2]]

\* The identity a scheduling of X resolves to.
Resolved(X) == overridePass(X, getPassSubstitution(X))

\* The entries a step appended to the output pipeline.
Appended == SubSeq(PM', Len(PM) + 1, Len(PM'))

Registered(ID) == ID # Null /\ createPass(ID) # Null

C10_Original ==
    [][\A X \in SchedIDs :
          IsAddPassID(X) =>
             \A i \in 1..Len(Extras(X)) :
                (Extras(X)[i] # Null /\ Resolved(Extras(X)[i]) = Null
                    /\ Extras(X)[i] # last'.ret)
                   => \A k \in 1..Len(Appended) : Appended[k] # Extras(X)[i]]_vars

\* C10: a scheduling of X that resolves to X' and completes hands to the gate
\* X' and then the extras recorded for X as recorded, unresolved; with no
\* window configured they are all appended.
C10_InsertedUnresolved ==
    [][\A X \in SchedIDs :
          (IsAddPassID(X) /\ Registered(Resolved(X)) /\ fatal' = NoError)
             => /\ cand' = cand \o <<Resolved(X)>> \o Extras(X)
                /\ (StartAfter = Null /\ StopAfter = Null)
                      => PM' = PM \o <<Resolved(X)>> \o Extras(X)]_vars

\* MachineSchedulerID, substituted to null by the constructor, was appended
\* as the extra of PHIElimination.
C10_Witness ==
    /\ last.op = "addPass(AnalysisID)"
    /\ last.a = "PHIEliminationID"
    /\ getPassSubstitution("MachineSchedulerID") = Null
    /\ EnableMachineSched = "BOU_UNSET"
    /\ PM = <<"PHIEliminationID", "MachineSchedulerID">>

----------------------------------------------------------------------------
(* Claims about the register allocator selection. *)

\* The step is a call of createRegAllocPass that directly follows another.
SuccessiveCreateRegAllocPass ==
    /\ nsched' = nsched + 1
    /\ last.op = "createRegAllocPass"
    /\ last'.op = "createRegAllocPass"

----------------------------------------------------------------------------
(* Claims about the machine passes. *)

Scheduled(ID) == \E i \in DOMAIN PM : PM[i] = ID

\* x occurs in seq, and y occurs after its first occurrence.
Before(seq, x, y) ==
    \E i, j \in DOMAIN seq : i < j /\ seq[i] = x /\ seq[j] = y

\* addMachinePasses has run to its end on a configuration that only the
\* constructor has touched: no window, no substitution of the target's.
AfterAddMachinePasses ==
    /\ last.op = "addMachinePasses"
    /\ fatal = NoError
    /\ TargetPasses = CtorTargetPasses
    /\ StartAfter = Null
    /\ StopAfter = Null

\* C7 as stated: with the default flags, level None schedules neither
\* RegisterCoalescer nor MachineScheduler, and every higher level schedules
\* both.
C7_Original ==
    (AfterAddMachinePasses /\ opts = DefaultOpts)
        => IF OptLevel = "None"
           THEN ~Scheduled("RegisterCoalescerID") /\ ~Scheduled("MachineSchedulerID")
           ELSE Scheduled("RegisterCoalescerID") /\ Scheduled("MachineSchedulerID")

\* C7: while -optimize-regalloc and -enable-misched are not given (the default
\* flags in particular), addMachinePasses schedules RegisterCoalescer exactly
\* at the levels above None, and MachineScheduler at no level: the constructor
\* substitutes it by null.
C7_FastVsOptimizedPath ==
    (/\ AfterAddMachinePasses
     /\ OptimizeRegAlloc = "BOU_UNSET"
     /\ EnableMachineSched = "BOU_UNSET")
        => /\ Scheduled("RegisterCoalescerID") <=> OptLevel # "None"
           /\ ~Scheduled("MachineSchedulerID")

\* addMachinePasses has built the default pipeline of an optimizing level:
\* the coalescer is in it, the machine scheduler is not.
C7_Witness ==
    /\ AfterAddMachinePasses
    /\ opts = DefaultOpts
    /\ OptLevel = "Aggressive"
    /\ Scheduled("RegisterCoalescerID")
    /\ ~Scheduled("MachineSchedulerID")

\* The SSA-form sub-order, as the passes the default configuration resolves
\* its entries to, early if-conversion among them.
SSASubOrder ==
    <<"TailDuplicateID", "OptimizePHIsID", "StackColoringID",
      "LocalStackSlotAllocationID", "DeadMachineInstructionElimID",
      "EarlyIfConverterID", "MachineLICMID", "MachineCSEID", "MachineSinkingID",
      "PeepholeOptimizerID">>

\* The configuration of the end-to-end scenario.
DefaultScenario ==
    /\ AfterAddMachinePasses
    /\ opts = DefaultOpts
    /\ OptLevel = "Default"
    /\ RegAlloc = "useDefaultRegisterAllocator"

\* What the scenario promises of the passes other than early if-conversion.
DefaultBranchesTaken ==
    /\ Scheduled("OptimizePHIsID")
    /\ Scheduled("RegisterCoalescerID") /\ Scheduled("RAGreedy")
    /\ Scheduled("BranchFolderPassID")
    /\ Scheduled("PostRASchedulerID")
    /\ Scheduled("MachineBlockPlacementID")
    /\ Scheduled("PHIEliminationID")
    /\ ~Scheduled("StrongPHIEliminationID")
    /\ ~Scheduled("MachineSchedulerID")

\* C8 as stated: the default pipeline takes every optimizing branch and
\* schedules every pass of the SSA-form sub-order, early if-conversion
\* included, in that order.
C8_Original ==
    DefaultScenario
        => /\ DefaultBranchesTaken
           /\ \A i \in DOMAIN SSASubOrder : Scheduled(SSASubOrder[i])
           /\ \A i, j \in DOMAIN SSASubOrder :
                 i < j => Before(PM, SSASubOrder[i], SSASubOrder[j])

\* The pipeline of the end-to-end scenario, pass by pass.
DefaultPipeline ==
    <<"ExpandISelPseudosID",
      "TailDuplicateID", "OptimizePHIsID", "StackColoringID",
      "LocalStackSlotAllocationID", "DeadMachineInstructionElimID",
      "MachineLICMID", "MachineCSEID", "MachineSinkingID", "PeepholeOptimizerID",
      "ProcessImplicitDefsID", "LiveVariablesID", "MachineLoopInfoID",
      "PHIEliminationID", "TwoAddressInstructionPassID", "RegisterCoalescerID",
      "RAGreedy", "VirtRegRewriterID", "StackSlotColoringID", "MachineLICMID",
      "PrologEpilogCodeInserterID",
      "BranchFolderPassID", "TailDuplicateID", "MachineCopyPropagationID",
      "ExpandPostRAPseudosID", "PostRASchedulerID", "GCMachineCodeAnalysisID",
      "MachineBlockPlacementID">>

\* C8: at level Default with every flag at its default, no substitution of
\* the target's and no window, addMachinePasses builds exactly the pipeline
\* above: every optimizing branch is taken, the SSA-form sub-order is
\* scheduled in order except for early if-conversion, which is not scheduled,
\* PHIElimination is used and not StrongPHIElimination, MachineScheduler is
\* absent and MachineBlockPlacement is present.
C8_DefaultPipeline ==
    DefaultScenario
        => /\ PM = DefaultPipeline
           /\ DefaultBranchesTaken
           /\ ~Scheduled("EarlyIfConverterID")
           /\ \A i, j \in DOMAIN SSASubOrder :
                 (i < j /\ SSASubOrder[i] # "EarlyIfConverterID"
                        /\ SSASubOrder[j] # "EarlyIfConverterID")
                     => Before(PM, SSASubOrder[i], SSASubOrder[j])

\* The scenario has been run: block placement was scheduled and early
\* if-conversion was not.
C8_Witness ==
    /\ DefaultScenario
    /\ Scheduled("MachineBlockPlacementID")
    /\ Scheduled("PeepholeOptimizerID")
    /\ ~Scheduled("EarlyIfConverterID")

----------------------------------------------------------------------------
(* Claims about the configuration calls. *)

\* A configuration call made after a pass has been scheduled.
ConfiguredAfterScheduling ==
    /\ nsched > 0
    /\ last'.op \in {"substitutePass", "insertPass", "setOpt"}

C12_Original ==
    \A i \in DOMAIN InsertedPasses :
       /\ InsertedPasses[i][2] # Null
       /\ InsertedPasses[i][2] # InsertedPasses[i][1]

\* The Insertion List has no entry whose extra is its own anchor.
NoSelfInsertion ==
    \A i \in DOMAIN InsertedPasses : InsertedPasses[i][2] # InsertedPasses[i][1]

\* C12: insertPass rejects an extra equal to its anchor at the call and
\* records nothing, so that no state has such an entry; a null extra (under
\* another anchor) is accepted and recorded, and is rejected only when its
\* anchor X is scheduled: after the pass X resolves to has been handed to the
\* gate, construction ends with "Illegal Pass ID!" (unless the gate itself
\* has ended it).
C12_InsertionChecks ==
    [][/\ NoSelfInsertion
       /\ (last'.op = "insertPass" /\ last'.a = last'.b)
             => /\ fatal' = "Insert a pass after itself!"
                /\ InsertedPasses' = InsertedPasses
       /\ (last'.op = "insertPass" /\ last'.a # Null /\ last'.b = Null)
             => /\ fatal' = NoError
                /\ InsertedPasses' = Append(InsertedPasses, <<last'.a, Null>>)
       /\ \A X \in SchedIDs :
             (/\ IsAddPassID(X)
              /\ Registered(Resolved(X))
              /\ Extras(X) # <<>>
              /\ Extras(X)[1] = Null)
                => /\ cand' = Append(cand, Resolved(X))
                   /\ fatal' \in {"Illegal Pass ID!", StopBeforeStart}]_vars

\* Construction is running with a null extra in the Insertion List: a pass
\* has been appended and no error has been raised.
C12_Witness ==
    /\ \E i \in DOMAIN InsertedPasses : InsertedPasses[i][2] = Null
    /\ PM # <<>>
    /\ last.op = "addPass(AnalysisID)"
    /\ fatal = NoError

----------------------------------------------------------------------------
(* Claims about the failures of addPass(AnalysisID). *)

NotRegistered == "Pass ID not registered"

\* C13: a scheduling of X that resolves to a non-null identity without a
\* registered factory ends construction with "Pass ID not registered" before
\* the gate: nothing is handed to it or appended, Started and Stopped stay as
\* they are.  An extra of X without a factory, reached after X's pass went
\* through the gate, ends construction the same way before the extra is
\* handed to the gate.  A scheduling that resolves to null instantiates
\* nothing, and no pass without a factory is ever handed to the gate.
C13_UnregisteredIsFatal ==
    [][/\ \A X \in SchedIDs :
             IsAddPassID(X) =>
                /\ (Resolved(X) \notin {Null, TargetCannotEnable} /\ ~Registered(Resolved(X)))
                      => /\ fatal' = NotRegistered
                         /\ UNCHANGED <<PM, cand, Started, Stopped>>
                /\ (/\ Registered(Resolved(X))
                    /\ Extras(X) # <<>>
                    /\ Extras(X)[1] # Null
                    /\ ~Registered(Extras(X)[1]))
                      => /\ fatal' \in {NotRegistered, StopBeforeStart}
                         /\ cand' = Append(cand, Resolved(X))
                /\ Resolved(X) = Null
                      => /\ fatal' = NoError
                         /\ UNCHANGED <<PM, cand, Started, Stopped>>
       /\ \A i \in DOMAIN cand' : Registered(cand'[i])]_vars

\* TailDuplicateID, substituted by an identity that names no pass, was
\* scheduled: construction ended before anything reached the gate.
C13_Witness ==
    /\ last.op = "addPass(AnalysisID)"
    /\ last.a = "TailDuplicateID"
    /\ last.b = "EarlyTailDuplicateID"
    /\ fatal = NotRegistered
    /\ cand = <<>>

----------------------------------------------------------------------------
(* Claims about the choice of the register allocator. *)

\* C14 as stated: on every call of createRegAllocPass, whatever the
\* process-wide default holds, an allocator named by -regalloc is the one
\* created, for either mode; with -regalloc at the default entry the target
\* is asked, greedy for the optimized mode and fast otherwise.
C14_Original ==
    [][last'.op = "createRegAllocPass"
          => IF RegAlloc # "useDefaultRegisterAllocator"
             THEN last'.ret = callCtor(RegAlloc)
             ELSE last'.ret = createTargetRegisterAllocator(last'.a)]_vars

----------------------------------------------------------------------------
(* Claims about the terminal state of the gate. *)

\* C15: once Stopped holds it holds for ever and the output pipeline does
\* not change any more, while an addPass call made then still takes its
\* candidate and ends without error; and no addPass call makes Started
\* false (setStartStopPasses, which configures the window before the first
\* candidate, is the one call that does).
C15_StopIsTerminal ==
    [][/\ Stopped => (Stopped' /\ PM' = PM)
       /\ (Stopped /\ last'.op = "addPass(Pass *)")
             => /\ fatal' = NoError
                /\ cand' = Append(cand, last'.a)
       /\ (Started /\ last'.op # "setStartStopPasses") => Started']_vars

\* A candidate was handed to the gate after the stop boundary had gone
\* through it: it was taken without error and not appended.
C15_Witness ==
    /\ Stopped
    /\ fatal = NoError
    /\ last.op = "addPass(Pass *)"
    /\ \E i \in 1..(Len(cand) - 1) : cand[i] = StopAfter
    /\ PM # <<>>
    /\ PM # cand

----------------------------------------------------------------------------
(* Claims about -print-machineinstrs. *)

\* -print-machineinstrs names a pass, and the registry knows none of that name.
UnknownPrintAfterName ==
    /\ PrintMachineInstrs \notin {"", "option-unspecified"}
    /\ getPassInfo(PrintMachineInstrs) = Null

\* C16 as stated: when -print-machineinstrs names a pass the registry does
\* not know, addMachinePasses does not end in a fatal error and adds no
\* entry to the Insertion List.
C16_Original ==
    (last.op = "addMachinePasses" /\ UnknownPrintAfterName)
        => /\ fatal = NoError
           /\ InsertedPasses = <<>>

----------------------------------------------------------------------------
(* Claims about the register-allocation stage. *)

\* The number of entries of seq that are in S.
Count(seq, S) == Cardinality({i \in DOMAIN seq : seq[i] \in S})

\* The passes the allocator constructors create.
AllocatorPasses == {"RAGreedy", "RAFast"}

\* What the claim says chooses the optimized path.
OptimizedPathExpected ==
    \/ OptimizeRegAlloc = "BOU_TRUE"
    \/ OptimizeRegAlloc = "BOU_UNSET" /\ OptLevel # "None"

\* C17: a run of addMachinePasses that ends without error makes exactly one
\* createRegAllocPass call, in the optimized mode iff -optimize-regalloc is
\* true or is unset with a level above None, and schedules exactly one
\* allocator pass, the one that call returned; the passes of the optimized
\* path only (RegisterCoalescer, VirtRegRewriter) are scheduled iff that
\* path was taken, so the two paths exclude each other.
C17_RegAllocPathSelection ==
    AfterAddMachinePasses
        => /\ Len(allocs) = 1
           /\ allocs[1].Optimized = OptimizedPathExpected
           /\ Count(PM, AllocatorPasses) = 1
           /\ Scheduled(allocs[1].pass)
           /\ Count(PM, {"RegisterCoalescerID"}) = (IF OptimizedPathExpected THEN 1 ELSE 0)
           /\ Count(PM, {"VirtRegRewriterID"}) = (IF OptimizedPathExpected THEN 1 ELSE 0)
           /\ Count(PM, {"TwoAddressInstructionPassID"}) = 1

\* The flag overrode the level: the optimized path was taken at level None.
C17_Witness ==
    /\ AfterAddMachinePasses
    /\ OptLevel = "None"
    /\ OptimizeRegAlloc = "BOU_TRUE"
    /\ Scheduled("RegisterCoalescerID")
    /\ Count(PM, AllocatorPasses) = 1

\* The entries of the output pipeline that are in S, in their order.
Only(S) == SelectSeq(PM, LAMBDA P : P \in S)

\* The passes of the optimized path whose order C18 fixes, but for the
\* post-RA LICM, which runs under the identity of MachineLICM.
RegAllocOrdered ==
    {"TwoAddressInstructionPassID", "RegisterCoalescerID", "VirtRegRewriterID",
     "StackSlotColoringID"} \cup AllocatorPasses

\* C18: on the optimized path, whatever -strong-phi-elim and
\* -early-live-intervals are, exactly one of PHIElimination and
\* StrongPHIElimination is scheduled, the strong one iff its flag is set;
\* PHIElimination comes before TwoAddressInstructionPass and
\* StrongPHIElimination after it; LiveIntervals is scheduled iff its flag is
\* set, before TwoAddressInstructionPass; and TwoAddressInstructionPass,
\* RegisterCoalescer, the allocator pass, VirtRegRewriter, StackSlotColoring
\* and the post-RA MachineLICM come once each in that order, the last two
\* unless their flags disable them.
C18_OptimizedRegAllocOrdering ==
    (AfterAddMachinePasses /\ OptimizedPathExpected)
        => /\ Count(PM, {"PHIEliminationID", "StrongPHIEliminationID"}) = 1
           /\ Scheduled("StrongPHIEliminationID") <=> EnableStrongPHIElim
           /\ Only({"PHIEliminationID", "StrongPHIEliminationID",
                    "TwoAddressInstructionPassID"})
                 = IF EnableStrongPHIElim
                   THEN <<"TwoAddressInstructionPassID", "StrongPHIEliminationID">>
                   ELSE <<"PHIEliminationID", "TwoAddressInstructionPassID">>
           /\ Only({"LiveIntervalsID", "TwoAddressInstructionPassID"})
                 = IF EarlyLiveIntervals
                   THEN <<"LiveIntervalsID", "TwoAddressInstructionPassID">>
                   ELSE <<"TwoAddressInstructionPassID">>
           /\ Only(RegAllocOrdered)
                 = <<"TwoAddressInstructionPassID", "RegisterCoalescerID",
                     allocs[1].pass, "VirtRegRewriterID">>
                   \o (IF DisableSSC THEN <<>> ELSE <<"StackSlotColoringID">>)
           /\ Only({"VirtRegRewriterID", "StackSlotColoringID", "MachineLICMID",
                    "PrologEpilogCodeInserterID"})
                 = (IF DisableMachineLICM \/ OptLevel = "None"
                    THEN <<>>
                    ELSE <<"MachineLICMID">>)
                   \o <<"VirtRegRewriterID">>
                   \o (IF DisableSSC THEN <<>> ELSE <<"StackSlotColoringID">>)
                   \o (IF DisablePostRAMachineLICM THEN <<>> ELSE <<"MachineLICMID">>)
                   \o <<"PrologEpilogCodeInserterID">>

\* The optimized path was built with both flags set.
C18_Witness ==
    /\ AfterAddMachinePasses
    /\ OptimizedPathExpected
    /\ EnableStrongPHIElim
    /\ EarlyLiveIntervals
    /\ Scheduled("StrongPHIEliminationID")
    /\ Scheduled("LiveIntervalsID")
    /\ ~Scheduled("PHIEliminationID")

----------------------------------------------------------------------------
(* Claims about the gating of the stages by the optimization level. *)

\* The passes of the SSA-form optimization stage other than
\* LocalStackSlotAllocation, which level None schedules in the stage's place.
SSAOptimizationPasses ==
    {SSASubOrder[i] : i \in DOMAIN SSASubOrder} \ {"LocalStackSlotAllocationID"}

\* The passes of the late optimization stage, the post-RA scheduler and the
\* block placement passes.
LateStagePasses ==
    {"BranchFolderPassID", "TailDuplicateID", "MachineCopyPropagationID",
     "PostRASchedulerID", "MachineBlockPlacementID", "CodePlacementOptID",
     "MachineBlockPlacementStatsID"}

\* C19: at level None the part of the pipeline before register allocation is
\* ExpandISelPseudos and LocalStackSlotAllocation with no pass of the
\* SSA-form optimization stage (the MachineLICM pass is in the pipeline at
\* None only as the post-RA LICM of the optimized allocation path, after
\* VirtRegRewriter), and no late optimization pass, PostRAScheduler or block
\* placement pass is scheduled; at every level LocalStackSlotAllocation is
\* scheduled exactly once, before the allocator pass, and the allocator pass,
\* PrologEpilogCodeInserter, ExpandPostRAPseudos and GCMachineCodeAnalysis
\* are scheduled once each in that order.
C19_OptLevelGating ==
    AfterAddMachinePasses
        => /\ Count(PM, {"LocalStackSlotAllocationID"}) = 1
           /\ Only(AllocatorPasses \cup {"LocalStackSlotAllocationID",
                     "PrologEpilogCodeInserterID", "ExpandPostRAPseudosID",
                     "GCMachineCodeAnalysisID"})
                 = <<"LocalStackSlotAllocationID", allocs[1].pass,
                     "PrologEpilogCodeInserterID", "ExpandPostRAPseudosID",
                     "GCMachineCodeAnalysisID">>
           /\ OptLevel = "None"
                 => /\ Only(SSAOptimizationPasses \ {"MachineLICMID"}) = <<>>
                    /\ Only(SSAOptimizationPasses \cup {"VirtRegRewriterID"})
                          \in {<<>>, <<"VirtRegRewriterID">>,
                               <<"VirtRegRewriterID", "MachineLICMID">>}
                    /\ Only(LateStagePasses) = <<>>
                    /\ Only({"ExpandISelPseudosID", "LocalStackSlotAllocationID",
                             "PHIEliminationID", "StrongPHIEliminationID",
                             "ProcessImplicitDefsID"})[2]
                          = "LocalStackSlotAllocationID"

\* The pipeline of level None with the default flags.
C19_Witness ==
    /\ AfterAddMachinePasses
    /\ OptLevel = "None"
    /\ opts = DefaultOpts
    /\ PM = <<"ExpandISelPseudosID", "LocalStackSlotAllocationID",
              "PHIEliminationID", "TwoAddressInstructionPassID", allocs[1].pass,
              "PrologEpilogCodeInserterID", "ExpandPostRAPseudosID",
              "GCMachineCodeAnalysisID">>

----------------------------------------------------------------------------
(* Claims about block placement. *)

PlacementPasses == {"MachineBlockPlacementID", "CodePlacementOptID"}

\* The placement pass the flags choose.
ChosenPlacement ==
    IF DisableBlockPlacement THEN "CodePlacementOptID" ELSE "MachineBlockPlacementID"

\* addMachinePasses has run to its end, with or without a window.
MachinePassesBuilt ==
    /\ last.op = "addMachinePasses"
    /\ fatal = NoError
    /\ TargetPasses = CtorTargetPasses

\* C20 as stated: at most one placement pass is in the output pipeline, the
\* one the flag chooses, and the statistics pass is in it only with its flag
\* set and directly after a placement pass that is in it.
C20_Original ==
    MachinePassesBuilt
        => /\ Count(PM, PlacementPasses) <= 1
           /\ \A P \in PlacementPasses : Scheduled(P) => P = ChosenPlacement
           /\ Scheduled("MachineBlockPlacementStatsID")
                 => /\ EnableBlockPlacementStats
                    /\ \E i \in 1..(Len(PM) - 1) :
                          /\ PM[i] \in PlacementPasses
                          /\ PM[i + 1] = "MachineBlockPlacementStatsID"

\* C20: exactly one placement pass, the one -disable-block-placement
\* chooses, is handed to the gate when the level is above None and
\* -disable-code-place is not set, and none otherwise; the statistics pass is
\* handed to the gate iff a placement pass was and
\* -enable-block-placement-stats is set, directly after it.  The output
\* pipeline receives each of the two as the gate decides: the statistics
\* pass directly follows the placement pass when both are appended, and it
\* is appended without the placement pass exactly when the placement pass is
\* the StartAfter boundary.
C20_BlockPlacement ==
    MachinePassesBuilt
        => /\ Only(PlacementPasses \cup {"MachineBlockPlacementStatsID"}) \in
                 {<<>>, <<ChosenPlacement>>, <<"MachineBlockPlacementStatsID">>,
                  <<ChosenPlacement, "MachineBlockPlacementStatsID">>}
           /\ SelectSeq(cand, LAMBDA P : P \in PlacementPasses
                                           \cup {"MachineBlockPlacementStatsID"})
                 = IF OptLevel = "None" \/ DisableCodePlace THEN <<>>
                   ELSE IF EnableBlockPlacementStats
                   THEN <<ChosenPlacement, "MachineBlockPlacementStatsID">>
                   ELSE <<ChosenPlacement>>
           /\ \A i \in 1..(Len(cand) - 1) :
                 cand[i + 1] = "MachineBlockPlacementStatsID"
                    => cand[i] = ChosenPlacement
           /\ (Scheduled("MachineBlockPlacementStatsID") /\ Scheduled(ChosenPlacement))
                 => \E i \in 1..(Len(PM) - 1) :
                       /\ PM[i] = ChosenPlacement
                       /\ PM[i + 1] = "MachineBlockPlacementStatsID"
           /\ (Scheduled("MachineBlockPlacementStatsID") /\ ~Scheduled(ChosenPlacement))
                 <=> /\ StartAfter = ChosenPlacement
                     /\ StopAfter # ChosenPlacement
                     /\ OptLevel # "None" /\ ~DisableCodePlace
                     /\ EnableBlockPlacementStats

\* The placement pass was the StartAfter boundary: the statistics pass was
\* appended and the placement pass was not.
C20_Witness ==
    /\ MachinePassesBuilt
    /\ StartAfter = "MachineBlockPlacementID"
    /\ Scheduled("MachineBlockPlacementStatsID")
    /\ ~Scheduled("MachineBlockPlacementID")

----------------------------------------------------------------------------
(* Claims about pre-allocation scheduling. *)

\* The passes of the output pipeline between RegisterCoalescer and the
\* allocator pass, the machine verifier aside: what the optimized path
\* scheduled as its pre-allocation scheduler.
PreRASchedulerSlot ==
    LET i == FirstIndex(PM, "RegisterCoalescerID")
        j == FirstIndex(PM, allocs[1].pass)
    IN SelectSeq(SubSeq(PM, i + 1, j - 1), LAMBDA P : P # "MachineVerifierPass")

\* addMachinePasses has run to its end on the optimized path, no window
\* configured.
OptimizedPathBuilt ==
    /\ last.op = "addMachinePasses"
    /\ fatal = NoError
    /\ StartAfter = Null
    /\ StopAfter = Null
    /\ OptimizedPathExpected

\* C21: on the optimized register-allocation path a pass is scheduled between
\* RegisterCoalescer and the allocator iff -enable-misched is true, or is
\* unset and the Substitution Table maps MachineSchedulerID to a non-null
\* identity; with the flag true the pass is the target's substitute, or the
\* standard MachineScheduler when the table maps to null; with the flag unset
\* it is the target's substitute; with the flag false there is none, whatever
\* the table maps to.
C21_PreRASchedulerEnablement ==
    OptimizedPathBuilt
        => LET T == getPassSubstitution("MachineSchedulerID")
           IN /\ PreRASchedulerSlot # <<>>
                    <=> \/ EnableMachineSched = "BOU_TRUE"
                        \/ EnableMachineSched = "BOU_UNSET" /\ T # Null
              /\ (EnableMachineSched = "BOU_TRUE" /\ T = Null)
                    => PreRASchedulerSlot = <<"MachineSchedulerID">>
              /\ (EnableMachineSched # "BOU_FALSE" /\ T # Null)
                    => PreRASchedulerSlot = <<T>>
              /\ EnableMachineSched = "BOU_FALSE" => PreRASchedulerSlot = <<>>
              /\ T # "MachineSchedulerID"
                    => (Scheduled("MachineSchedulerID")
                           <=> EnableMachineSched = "BOU_TRUE" /\ T = Null)

\* The flag forced the standard scheduler in over the constructor's null
\* substitution.
C21_Witness ==
    /\ OptimizedPathBuilt
    /\ EnableMachineSched = "BOU_TRUE"
    /\ TargetPasses = CtorTargetPasses
    /\ PreRASchedulerSlot = <<"MachineSchedulerID">>

\* The flag suppressed the scheduler that the target had substituted.
C21_WitnessSuppressed ==
    /\ OptimizedPathBuilt
    /\ EnableMachineSched = "BOU_FALSE"
    /\ getPassSubstitution("MachineSchedulerID") = "PostRASchedulerID"
    /\ PreRASchedulerSlot = <<>>

----------------------------------------------------------------------------
(* Claims about the late optimizations and the pseudo identities. *)

\* <<P>> unless Disabled
Unless(Disabled, P) == IF Disabled THEN <<>> ELSE <<P>>

\* C22: addMachineLateOptimization schedules exactly the passes among
\* BranchFolder, TailDuplicate and MachineCopyPropagation whose flag
\* (-disable-branch-fold, -disable-tail-duplicate, -disable-copyprop) is not
\* set, in that order, for every combination of the flags.  In the pipeline
\* of a level above None the tail duplication pass comes up to twice: before
\* OptimizePHIs unless -disable-early-taildup, and between BranchFolder and
\* MachineCopyPropagation unless -disable-tail-duplicate, each flag acting on
\* its own occurrence only; likewise MachineLICM before VirtRegRewriter
\* unless -disable-machine-licm and after it unless
\* -disable-postra-machine-licm.
C22_IndependentSuppression ==
    /\ (last.op = "addMachineLateOptimization" /\ fatal = NoError)
          => PM = Unless(DisableBranchFold, "BranchFolderPassID")
                  \o Unless(DisableTailDuplicate, "TailDuplicateID")
                  \o Unless(DisableCopyProp, "MachineCopyPropagationID")
    /\ (AfterAddMachinePasses /\ OptLevel # "None")
          => /\ Only({"TailDuplicateID", "OptimizePHIsID", "PrologEpilogCodeInserterID",
                      "BranchFolderPassID", "MachineCopyPropagationID"})
                   = Unless(DisableEarlyTailDup, "TailDuplicateID")
                     \o <<"OptimizePHIsID", "PrologEpilogCodeInserterID">>
                     \o Unless(DisableBranchFold, "BranchFolderPassID")
                     \o Unless(DisableTailDuplicate, "TailDuplicateID")
                     \o Unless(DisableCopyProp, "MachineCopyPropagationID")
             /\ Only({"MachineLICMID", "VirtRegRewriterID"})
                   = Unless(DisableMachineLICM, "MachineLICMID")
                     \o <<"VirtRegRewriterID">>
                     \o Unless(DisablePostRAMachineLICM, "MachineLICMID")

\* The early occurrences of tail duplication and MachineLICM were suppressed
\* and the late ones were not.
C22_Witness ==
    /\ AfterAddMachinePasses
    /\ OptLevel # "None"
    /\ DisableEarlyTailDup /\ ~DisableTailDuplicate
    /\ DisableMachineLICM /\ ~DisablePostRAMachineLICM
    /\ DisableBranchFold /\ ~DisableCopyProp
    /\ Only({"TailDuplicateID", "MachineLICMID", "BranchFolderPassID",
              "MachineCopyPropagationID", "VirtRegRewriterID"})
          = <<"VirtRegRewriterID", "MachineLICMID", "TailDuplicateID",
              "MachineCopyPropagationID">>

\* The late optimization stage on its own, with the middle pass suppressed.
C22_WitnessStage ==
    /\ last.op = "addMachineLateOptimization"
    /\ DisableTailDuplicate /\ ~DisableBranchFold /\ ~DisableCopyProp
    /\ PM = <<"BranchFolderPassID", "MachineCopyPropagationID">>

----------------------------------------------------------------------------
(* Claims about the substitution lookup. *)

\* What the table Table holds for ID: its entry, or ID when it has none.
Mapped(Table, ID) == IF ID \in DOMAIN Table THEN Table[ID] ELSE ID

\* C23: a call substitutePass(S, T) leaves the Substitution Table holding T
\* for S and what it held for every other identity, and no other call
\* changes the table, so the table holds for S the identity most recently
\* recorded for it, or S; getPassSubstitution(S) returns what the table
\* holds for S, in one step; and scheduling an identity without an Override
\* Rule resolves it to what the table holds for it, in one step, and hands
\* that pass to the gate, whatever the table holds for the result.
C23_SubstitutionLookup ==
    [][/\ last'.op = "substitutePass"
            => /\ Mapped(TargetPasses', last'.a) = last'.b
               /\ \A ID \in AllIDs \ {last'.a} :
                     Mapped(TargetPasses', ID) = Mapped(TargetPasses, ID)
       /\ last'.op # "substitutePass" => TargetPasses' = TargetPasses
       /\ last'.op = "getPassSubstitution"
            => /\ last'.ret = Mapped(TargetPasses, last'.a)
               /\ PM' = PM /\ cand' = cand /\ InsertedPasses' = InsertedPasses
       /\ (last'.op = "addPass(AnalysisID)" /\ last'.a \in SubstKeys)
            => /\ last'.ret = Mapped(TargetPasses, last'.a)
               /\ cand' = IF Mapped(TargetPasses, last'.a) = Null THEN cand
                          ELSE Append(cand, Mapped(TargetPasses, last'.a))]_vars

\* A was substituted by B and B by C, and A was scheduled: B was handed to
\* the gate.
C23_Witness ==
    /\ "PHIEliminationID" \in DOMAIN TargetPasses
    /\ "TwoAddressInstructionPassID" \in DOMAIN TargetPasses
    /\ TargetPasses["PHIEliminationID"] = "TwoAddressInstructionPassID"
    /\ TargetPasses["TwoAddressInstructionPassID"] = "RegisterCoalescerID"
    /\ last = Call("addPass(AnalysisID)", "PHIEliminationID",
                   "TwoAddressInstructionPassID", "TwoAddressInstructionPassID")
    /\ PM = <<"TwoAddressInstructionPassID">>

\* An identity substituted twice was looked up: the later record is returned.
C23_WitnessLookup ==
    /\ nconf = 2
    /\ "PHIEliminationID" \in DOMAIN TargetPasses
    /\ "TwoAddressInstructionPassID" \notin DOMAIN TargetPasses
    /\ last = Call("getPassSubstitution", "PHIEliminationID", Null, Null)

----------------------------------------------------------------------------
(* Claims about the reachability of the resolution's fatal error. *)

\* C24: no addPass(AnalysisID) call ends in "Target cannot enable pass":
\* whatever the Substitution Table holds for the identity and whatever the
\* flags are, the resolution yields null or the identity of a pass; for
\* MachineSchedulerID with -enable-misched true and a null substitution it
\* yields MachineSchedulerID itself, the fallback that overridePass hands to
\* applyOverride.
C24_TargetCannotEnableUnreachable ==
    /\ fatal # TargetCannotEnable
    /\ last.op = "addPass(AnalysisID)"
          => /\ overridePass(last.a, last.b) \in StandardIDs \cup {Null}
             /\ fatal = NoError => last.ret = overridePass(last.a, last.b)
             /\ (/\ last.a = "MachineSchedulerID"
                 /\ EnableMachineSched = "BOU_TRUE"
                 /\ last.b = Null)
                  => fatal = NoError /\ last.ret = "MachineSchedulerID"

\* MachineSchedulerID, disabled by the target, was scheduled with
\* -enable-misched true: the standard scheduler was handed to the gate.
C24_Witness ==
    /\ last = Call("addPass(AnalysisID)", "MachineSchedulerID", Null,
                   "MachineSchedulerID")
    /\ EnableMachineSched = "BOU_TRUE"
    /\ fatal = NoError
    /\ PM = <<"MachineSchedulerID">>

----------------------------------------------------------------------------
(* Claims about a window whose two boundaries are one pass. *)

\* C25: with StartAfter and StopAfter configured to the same pass A, no
\* candidate is ever appended and the gate raises no fatal error: Started
\* and Stopped are both false until A reaches the gate and both true from
\* then on, A itself is not appended, and the output pipeline is empty
\* throughout.
C25_SameBoundary ==
    (StartAfter # Null /\ StartAfter = StopAfter)
        => /\ PM = <<>>
           /\ fatal = NoError
           /\ Started <=> FirstIndex(cand, StartAfter) > 0
           /\ Stopped <=> FirstIndex(cand, StartAfter) > 0

\* A pass before A, A, and a pass after A have reached the gate.
C25_Witness ==
    /\ StartAfter = "TwoAddressInstructionPassID"
    /\ StopAfter = "TwoAddressInstructionPassID"
    /\ cand = <<"PHIEliminationID", "TwoAddressInstructionPassID",
                "RegisterCoalescerID">>
    /\ Started /\ Stopped
    /\ PM = <<>>

----------------------------------------------------------------------------
(* Claims about the depth and the order of the insertions. *)

\* The pairs the Insertion List holds for the anchor X.
EntriesFor(X) == SelectSeq(InsertedPasses, LAMBDA p : p[1] = X)

\* C26: a scheduling of X that resolves to a registered pass X', every extra
\* recorded for X being a registered pass, hands to the gate X' and then the
\* extras recorded for X, one per recorded pair, in the order recorded, and
\* nothing else: 1 + (number of pairs anchored on X) passes, whatever pairs
\* are anchored on the extras themselves, cyclic ones included.  The call
\* leaves the Insertion List as it was, and without a window it ends without
\* error and appends all of them.
C26_InsertionOneLevel ==
    [][\A X \in SchedIDs :
          (/\ IsAddPassID(X)
           /\ Registered(Resolved(X))
           /\ \A i \in 1..Len(Extras(X)) : Registered(Extras(X)[i]))
             => /\ InsertedPasses' = InsertedPasses
                /\ fatal' \in {NoError, StopBeforeStart}
                /\ fatal' = NoError
                      => /\ cand' = cand \o <<Resolved(X)>> \o Extras(X)
                         /\ Len(cand') = Len(cand) + 1 + Len(EntriesFor(X))
                /\ (StartAfter = Null /\ StopAfter = Null)
                      => /\ fatal' = NoError
                         /\ PM' = PM \o <<Resolved(X)>> \o Extras(X)]_vars

\* The cyclic entries (X, Z) and (Z, X) were recorded and X was scheduled:
\* X and Z were handed to the gate, once each.
C26_Witness ==
    /\ InsertedPasses = <<<<"PHIEliminationID", "TailDuplicateID">>,
                          <<"TailDuplicateID", "PHIEliminationID">>>>
    /\ last.op = "addPass(AnalysisID)"
    /\ last.a = "PHIEliminationID"
    /\ nsched = 1
    /\ fatal = NoError
    /\ cand = <<"PHIEliminationID", "TailDuplicateID">>

\* Two extras were recorded for X and X was scheduled: they follow X in the
\* order recorded.
C26_WitnessOrder ==
    /\ InsertedPasses = <<<<"PHIEliminationID", "TailDuplicateID">>,
                          <<"PHIEliminationID", "MachineSchedulerID">>>>
    /\ last.op = "addPass(AnalysisID)"
    /\ last.a = "PHIEliminationID"
    /\ PM = <<"PHIEliminationID", "TailDuplicateID", "MachineSchedulerID">>

----------------------------------------------------------------------------
(* Claims about concurrent createRegAllocPass calls. *)

\* What a createRegAllocPass(Optimized) call returns when it runs on its
\* own with the default holding Default.
SequentialResult(Default, Optimized) ==
    createRegAllocPass([Cur EXCEPT !.RegAllocDefault = Default], Optimized).ret

\* C27: with the default unset when the first call begins and set by these
\* calls only, in every interleaving of the statements of the pipelines'
\* createRegAllocPass calls the default holds nothing or the -regalloc
\* option, and the option once a call has passed its check; a call that has
\* passed its check works with the option as its constructor; and every call
\* returns the allocator it returns when run on its own, before or after
\* the others.
C27_BenignCheckThenSet ==
    /\ RegAllocDefault \in {Null, RegAlloc}
    /\ \A p \in Pipelines :
          frames[p].pc = "return"
             => frames[p].Ctor = RegAlloc /\ RegAllocDefault = RegAlloc
    /\ allocs # <<>> => RegAllocDefault = RegAlloc
    /\ \A i \in DOMAIN allocs :
          /\ allocs[i].pass = SequentialResult(Null, allocs[i].Optimized)
          /\ allocs[i].pass = SequentialResult(RegAlloc, allocs[i].Optimized)

\* Both pipelines found the default unset: one has set it, the other is
\* about to set it over again.
C27_Witness ==
    /\ frames["pipeline1"].pc = "setDefault"
    /\ frames["pipeline2"].pc = "return"
    /\ RegAllocDefault = RegAlloc
    /\ allocs = <<>>

\* Two calls of different modes that began before either had ended have
\* both returned.
C27_WitnessReturned ==
    /\ allocs = <<[Optimized |-> TRUE, pass |-> "RAGreedy"],
                  [Optimized |-> FALSE, pass |-> "RAFast"]>>
    /\ RegAllocDefault = "useDefaultRegisterAllocator"
    /\ last.op = "createRegAllocPass" /\ last.by = "pipeline1"
    /\ frames["pipeline2"].pc = "getDefault"

====
